---- MODULE Spec2Model ----
(***************************************************************************)
(* The spreadsheet formula engine of apps/web/src/utils/formula.ts         *)
(* (tokenize, Parser, evaluateSheet and the A1 coordinate codec) and the   *)
(* sheet-to-matrix projection buildMatrix of the spreadsheet widget.       *)
(*                                                                         *)
(* JavaScript strings are sequences of one-character strings, so that the  *)
(* tokenizer, String.trim, toUpperCase and Number() are computed on the    *)
(* characters.  JavaScript numbers are exact rationals n/d extended with   *)
(* Infinity (d = 0, n = 1), -Infinity (d = 0, n = -1) and NaN (d = 0,      *)
(* n = 0); rounding of IEEE doubles is not modelled.                       *)
(***************************************************************************)
EXTENDS Integers, Sequences, FiniteSets, TLC

(***************************************************************************)
(* Characters and strings                                                  *)
(***************************************************************************)
UpperLetters == <<"A", "B", "C", "D", "E", "F", "G", "H", "I", "J", "K", "L", "M",
                  "N", "O", "P", "Q", "R", "S", "T", "U", "V", "W", "X", "Y", "Z">>

LowerLetters == <<"a", "b", "c", "d", "e", "f", "g", "h", "i", "j", "k", "l", "m",
                  "n", "o", "p", "q", "r", "s", "t", "u", "v", "w", "x", "y", "z">>

DigitChars == <<"0", "1", "2", "3", "4", "5", "6", "7", "8", "9">>

Range(f) == {f[i] : i \in DOMAIN f}

IndexOf(seq, ch) == CHOOSE i \in DOMAIN seq : seq[i] = ch

isLetter(ch) == ch \in Range(UpperLetters) \cup Range(LowerLetters)

isDigit(ch) == ch \in Range(DigitChars)

DigitValue(ch) == IndexOf(DigitChars, ch) - 1

isSpace(ch) == ch \in {" ", "\t", "\n", "\r"}

\* String.prototype.toUpperCase on one character, then on a string
UpperChar(ch) == IF ch \in Range(LowerLetters) THEN UpperLetters[IndexOf(LowerLetters, ch)] ELSE ch

\* labels and names taken as they are written
toUpperCaseKeepsCase(s) == s

toUpperCase(s) == [i \in DOMAIN s |-> UpperChar(s[i])]

RECURSIVE TrimLeft(_)
TrimLeft(s) == IF s # <<>> /\ isSpace(Head(s)) THEN TrimLeft(Tail(s)) ELSE s

RECURSIVE TrimRight(_)
TrimRight(s) ==
    IF s # <<>> /\ isSpace(s[Len(s)]) THEN TrimRight(SubSeq(s, 1, Len(s) - 1)) ELSE s

\* String.prototype.trim
trim(s) == TrimRight(TrimLeft(s))

\* s.startsWith(p) for a one-character p
startsWith(s, ch) == s # <<>> /\ Head(s) = ch

\* s.slice(from) with a 0-based from
sliceFrom(s, from) == SubSeq(s, from + 1, Len(s))

(***************************************************************************)
(* Numbers: n/d in lowest terms with d > 0, or d = 0 for Infinity, NaN     *)
(***************************************************************************)
Abs(x) == IF x < 0 THEN -x ELSE x

Sign(x) == IF x < 0 THEN -1 ELSE IF x > 0 THEN 1 ELSE 0

RECURSIVE Gcd(_, _)
Gcd(a, b) == IF b = 0 THEN a ELSE Gcd(b, a % b)

RECURSIVE Pow10(_)
Pow10(k) == IF k = 0 THEN 1 ELSE 10 * Pow10(k - 1)

Num(n, d) ==
    IF d = 0 THEN [t |-> "num", n |-> Sign(n), d |-> 0]
    ELSE LET g == Gcd(Abs(n), Abs(d))
             s == Sign(d)
         IN [t |-> "num", n |-> (s * n) \div g, d |-> (s * d) \div g]

NumInt(n) == [t |-> "num", n |-> n, d |-> 1]

NaN == [t |-> "num", n |-> 0, d |-> 0]

PosInfinity == [t |-> "num", n |-> 1, d |-> 0]

NegInfinity == [t |-> "num", n |-> -1, d |-> 0]

isNaN(x) == x.d = 0 /\ x.n = 0

isFinite(x) == x.d # 0

isZero(x) == x.d # 0 /\ x.n = 0

NumNeg(x) == [t |-> "num", n |-> -x.n, d |-> x.d]

NumAdd(x, y) ==
    IF isNaN(x) \/ isNaN(y) THEN NaN
    ELSE IF x.d = 0 /\ y.d = 0 THEN (IF x.n = y.n THEN x ELSE NaN)
    ELSE IF x.d = 0 THEN x
    ELSE IF y.d = 0 THEN y
    ELSE Num(x.n * y.d + y.n * x.d, x.d * y.d)

NumSub(x, y) == NumAdd(x, NumNeg(y))

NumMul(x, y) ==
    IF isNaN(x) \/ isNaN(y) THEN NaN
    ELSE IF x.d = 0 \/ y.d = 0
         THEN (IF x.n = 0 \/ y.n = 0 THEN NaN ELSE Num(Sign(x.n) * Sign(y.n), 0))
    ELSE Num(x.n * y.n, x.d * y.d)

\* an / bn for bn # 0 (the evaluator never divides by a zero)
NumDiv(x, y) ==
    IF isNaN(x) \/ isNaN(y) THEN NaN
    ELSE IF x.d = 0 /\ y.d = 0 THEN NaN
    ELSE IF x.d = 0 THEN Num(Sign(x.n) * (IF y.n < 0 THEN -1 ELSE 1), 0)
    ELSE IF y.d = 0 THEN NumInt(0)
    ELSE Num(x.n * y.d * Sign(y.n), x.d * Abs(y.n))

\* an === bn and an < bn on numbers (false whenever a NaN takes part)
NumEq(x, y) == ~isNaN(x) /\ ~isNaN(y) /\ x = y

NumLt(x, y) ==
    /\ ~isNaN(x) /\ ~isNaN(y)
    /\ IF x.d = 0 \/ y.d = 0
       THEN (IF x.d = 0 /\ y.d = 0 THEN x.n < y.n
             ELSE IF x.d = 0 THEN x.n < 0 ELSE y.n > 0)
       ELSE x.n * y.d < y.n * x.d

\* Math.floor and Math.round (round half up: floor(x + 1/2))
NumFloor(x) == IF x.d = 0 THEN x ELSE NumInt(x.n \div x.d)

NumRound(x) == IF x.d = 0 THEN x ELSE NumInt((2 * x.n + x.d) \div (2 * x.d))

(***************************************************************************)
(* Exceptions: a call either returns a value or throws an Error whose      *)
(* message is the concatenation of the strings of msg                      *)
(***************************************************************************)
Thrown(m) == [thrown |-> TRUE, msg |-> m]

Ok(x) == [thrown |-> FALSE, v |-> x]

\* exception propagation: a callee that threw ends its caller with the same
\* exception; otherwise the caller goes on, K, with what the callee returned
AndThen(r, K(_)) == IF r.thrown THEN r ELSE K(r)

\* const x = v, and the statements K that follow it
Const(v, K(_)) == K(v)

\* Number(s) for the decimal literals the model uses: optional sign, digits
\* with at most one '.', at least one digit; "" is 0; anything else is NaN
RECURSIVE DigitsValue(_, _)
DigitsValue(s, acc) ==
    IF s = <<>> THEN acc ELSE DigitsValue(Tail(s), 10 * acc + DigitValue(Head(s)))

\* the value of the unsigned literal body: digits with at most one '.', at least
\* one digit; anything else is NaN
Magnitude(body, dots, digs) ==
    IF dots \cup digs # DOMAIN body \/ Cardinality(dots) > 1 \/ digs = {} THEN NaN
    ELSE Const(IF dots = {} THEN Len(body) + 1 ELSE CHOOSE i \in dots : TRUE, LAMBDA dot :
         Const(SubSeq(body, dot + 1, Len(body)), LAMBDA frac :
             Num(DigitsValue(SubSeq(body, 1, dot - 1) \o frac, 0), Pow10(Len(frac)))))

Number(str) ==
    Const(trim(str), LAMBDA s :
        IF s = <<>> THEN NumInt(0)
        ELSE Const(IF startsWith(s, "-") \/ startsWith(s, "+") THEN Tail(s) ELSE s, LAMBDA body :
             Const(Magnitude(body, {i \in DOMAIN body : body[i] = "."},
                             {i \in DOMAIN body : isDigit(body[i])}), LAMBDA mag :
                 IF startsWith(s, "-") THEN NumNeg(mag) ELSE mag)))

(***************************************************************************)
(* Tokenizer                                                               *)
(***************************************************************************)
\* the end (exclusive, 1-based) of the run of letters, of digits, and of digits
\* and dots, that starts at j: the inner while loops of tokenize
RECURSIVE LettersEnd(_, _)
LettersEnd(s, j) == IF j <= Len(s) /\ isLetter(s[j]) THEN LettersEnd(s, j + 1) ELSE j

RECURSIVE DigitsEnd(_, _)
DigitsEnd(s, j) == IF j <= Len(s) /\ isDigit(s[j]) THEN DigitsEnd(s, j + 1) ELSE j

RECURSIVE NumberEnd(_, _)
NumberEnd(s, j) ==
    IF j <= Len(s) /\ (isDigit(s[j]) \/ s[j] = ".") THEN NumberEnd(s, j + 1) ELSE j

\* s.slice(i, i + 2), for the 1-based place i
two(s, i) == SubSeq(s, i, IF i + 1 <= Len(s) THEN i + 1 ELSE i)

RECURSIVE tokenizeFrom(_, _, _)
tokenizeFrom(s, i, out) ==
    IF i > Len(s) THEN Ok(out)
    ELSE IF isSpace(s[i]) THEN tokenizeFrom(s, i + 1, out)
    ELSE IF s[i] = "(" THEN tokenizeFrom(s, i + 1, Append(out, [t |-> "lp"]))
    ELSE IF s[i] = ")" THEN tokenizeFrom(s, i + 1, Append(out, [t |-> "rp"]))
    ELSE IF s[i] = "," THEN tokenizeFrom(s, i + 1, Append(out, [t |-> "comma"]))
    ELSE IF s[i] = ":" THEN tokenizeFrom(s, i + 1, Append(out, [t |-> "colon"]))
    ELSE IF two(s, i) = <<">", "=">> THEN tokenizeFrom(s, i + 2, Append(out, [t |-> "op", v |-> ">="]))
    ELSE IF two(s, i) = <<"<", "=">> THEN tokenizeFrom(s, i + 2, Append(out, [t |-> "op", v |-> "<="]))
    ELSE IF two(s, i) = <<"!", "=">> THEN tokenizeFrom(s, i + 2, Append(out, [t |-> "op", v |-> "!="]))
    ELSE IF s[i] \in {"+", "-", "*", "/", ">", "<", "="}
         THEN tokenizeFrom(s, i + 1, Append(out, [t |-> "op", v |-> s[i]]))
    ELSE IF isDigit(s[i]) \/ (s[i] = "." /\ i + 1 <= Len(s) /\ isDigit(s[i + 1]))
         THEN Const(NumberEnd(s, i + 1), LAMBDA j :
              Const(Number(SubSeq(s, i, j - 1)), LAMBDA v :
                  IF ~isFinite(v) THEN Thrown(<<"Invalid number: ">> \o SubSeq(s, i, j - 1))
                  ELSE tokenizeFrom(s, j, Append(out, [t |-> "num", v |-> v]))))
    ELSE IF isLetter(s[i])
         THEN Const(LettersEnd(s, i + 1), LAMBDA j :
              Const(DigitsEnd(s, j), LAMBDA k :
                  IF k > j
                  THEN tokenizeFrom(s, k, Append(out,
                           [t |-> "cell", v |-> toUpperCase(SubSeq(s, i, j - 1) \o SubSeq(s, j, k - 1))]))
                  ELSE tokenizeFrom(s, j, Append(out,
                           [t |-> "ident", v |-> toUpperCase(SubSeq(s, i, j - 1))]))))
    ELSE Thrown(<<"Unexpected character: ", s[i]>>)

tokenize(expr) == tokenizeFrom(trim(expr), 1, <<>>)

(***************************************************************************)
(* Parser: every parse function takes the tokens and the position pos      *)
(* (0-based, as this.pos) and returns the node and the new position        *)
(***************************************************************************)
Parsed(node, pos) == [thrown |-> FALSE, node |-> node, pos |-> pos]

\* this.match(t) and this.match(t, v)
match(tokens, pos, t) == pos < Len(tokens) /\ tokens[pos + 1].t = t

matchOp(tokens, pos, v) == match(tokens, pos, "op") /\ tokens[pos + 1].v = v

ComparisonOps == {"=", "!=", ">", ">=", "<", "<="}

\* this.eat(t) at position pos, then the rest of the caller
Eat(tokens, pos, t, ok) == IF match(tokens, pos, t) THEN ok ELSE Thrown(<<"Expected ", t>>)

RECURSIVE parseComparison(_, _)
RECURSIVE parseComparisonLoop(_, _, _)
RECURSIVE parseAdd(_, _)
RECURSIVE parseAddLoop(_, _, _)
RECURSIVE parseMul(_, _)
RECURSIVE parseMulLoop(_, _, _)
RECURSIVE parseUnary(_, _)
RECURSIVE parsePrimary(_, _)
RECURSIVE parseArgs(_, _, _)

BinNode(tokens, pos, node, rhs) ==
    [k |-> "bin", op |-> tokens[pos + 1].v, a |-> node, b |-> rhs.node]

parsePrimary(tokens, pos) ==
    IF pos >= Len(tokens) THEN Thrown(<<"Unexpected end">>)
    ELSE IF tokens[pos + 1].t = "num" THEN Parsed([k |-> "num", v |-> tokens[pos + 1].v], pos + 1)
    ELSE IF tokens[pos + 1].t = "cell"
         THEN IF match(tokens, pos + 1, "colon")
              THEN Eat(tokens, pos + 2, "cell",
                       Parsed([k |-> "range", start |-> tokens[pos + 1].v, end |-> tokens[pos + 3].v],
                              pos + 3))
              ELSE Parsed([k |-> "cell", ref |-> tokens[pos + 1].v], pos + 1)
    ELSE IF tokens[pos + 1].t = "ident"
         THEN IF match(tokens, pos + 1, "lp")
              THEN AndThen(parseArgs(tokens, pos + 2, <<>>),
                           LAMBDA r : Eat(tokens, r.pos, "rp",
                               Parsed([k |-> "call", fn |-> tokens[pos + 1].v, args |-> r.args],
                                      r.pos + 1)))
              ELSE Parsed([k |-> "num", v |-> NumInt(0)], pos + 1)
    ELSE IF tokens[pos + 1].t = "lp"
         THEN AndThen(parseComparison(tokens, pos + 1),
                      LAMBDA r : Eat(tokens, r.pos, "rp", Parsed(r.node, r.pos + 1)))
    ELSE Thrown(<<"Unexpected token: ", tokens[pos + 1].t>>)

\* the arguments of a call, from the token after "(": none before ")", else
\* parseComparison() and, while (this.match("comma")), this.eat("comma") and
\* another parseComparison()
parseArgs(tokens, pos, args) ==
    IF args = <<>> /\ match(tokens, pos, "rp")
    THEN [thrown |-> FALSE, args |-> args, pos |-> pos]
    ELSE IF args = <<>> \/ match(tokens, pos, "comma")
    THEN AndThen(parseComparison(tokens, IF args = <<>> THEN pos ELSE pos + 1),
                 LAMBDA r : parseArgs(tokens, r.pos, Append(args, r.node)))
    ELSE [thrown |-> FALSE, args |-> args, pos |-> pos]

parseUnary(tokens, pos) ==
    IF matchOp(tokens, pos, "-")
    THEN AndThen(parseUnary(tokens, pos + 1),
                 LAMBDA r : Parsed([k |-> "unary", op |-> "-", a |-> r.node], r.pos))
    ELSE parsePrimary(tokens, pos)

parseMulLoop(tokens, node, pos) ==
    IF matchOp(tokens, pos, "*") \/ matchOp(tokens, pos, "/")
    THEN AndThen(parseUnary(tokens, pos + 1),
                 LAMBDA rhs : parseMulLoop(tokens, BinNode(tokens, pos, node, rhs), rhs.pos))
    ELSE Parsed(node, pos)

parseMul(tokens, pos) ==
    AndThen(parseUnary(tokens, pos), LAMBDA r : parseMulLoop(tokens, r.node, r.pos))

\* "-" and "+" grouping to the right: the right operand is a whole parseAdd()
parseAddLoopRight(tokens, node, pos) ==
    IF matchOp(tokens, pos, "+") \/ matchOp(tokens, pos, "-")
    THEN AndThen(parseAdd(tokens, pos + 1),
                 LAMBDA rhs : Parsed(BinNode(tokens, pos, node, rhs), rhs.pos))
    ELSE Parsed(node, pos)

parseAddLoop(tokens, node, pos) ==
    IF matchOp(tokens, pos, "+") \/ matchOp(tokens, pos, "-")
    THEN AndThen(parseMul(tokens, pos + 1),
                 LAMBDA rhs : parseAddLoop(tokens, BinNode(tokens, pos, node, rhs), rhs.pos))
    ELSE Parsed(node, pos)

parseAdd(tokens, pos) ==
    AndThen(parseMul(tokens, pos), LAMBDA r : parseAddLoop(tokens, r.node, r.pos))

parseComparisonLoop(tokens, node, pos) ==
    IF match(tokens, pos, "op") /\ tokens[pos + 1].v \in ComparisonOps
    THEN AndThen(parseAdd(tokens, pos + 1),
                 LAMBDA rhs : parseComparisonLoop(tokens, BinNode(tokens, pos, node, rhs), rhs.pos))
    ELSE Parsed(node, pos)

parseComparison(tokens, pos) ==
    AndThen(parseAdd(tokens, pos), LAMBDA r : parseComparisonLoop(tokens, r.node, r.pos))

\* new Parser(tokens).parse()
parse(tokens) ==
    AndThen(parseComparison(tokens, 0),
            LAMBDA r : IF r.pos # Len(tokens) THEN Thrown(<<"Unexpected trailing tokens">>)
                       ELSE Ok(r.node))

(***************************************************************************)
(* A1 coordinate codec                                                     *)
(***************************************************************************)
RECURSIVE colIndexLoop(_, _)
\* the letters as the digits of plain base 26, without the step n - 1 that makes
\* the numbering bijective
colIndexLoopPlain(n, s) ==
    IF n > 0
    THEN colIndexLoop(n \div Len(UpperLetters),
                      <<UpperLetters[(n % Len(UpperLetters)) + 1]>> \o s)
    ELSE s

colIndexLoop(n, s) ==
    IF n > 0
    THEN colIndexLoop((n - 1) \div Len(UpperLetters),
                      <<UpperLetters[((n - 1) % Len(UpperLetters)) + 1]>> \o s)
    ELSE s

colIndexToLetters(colIndex) == colIndexLoop(colIndex + 1, <<>>)

\* for (const ch of letters.toUpperCase()): v is the place of ch in A..Z, and any
\* other character puts v outside 1..26
RECURSIVE lettersLoop(_, _, _)
lettersLoop(letters, rest, n) ==
    IF rest = <<>> THEN Ok(n - 1)
    ELSE IF Head(rest) \notin Range(UpperLetters)
         THEN Thrown(<<"Invalid column letters: ">> \o letters)
         ELSE lettersLoop(letters, Tail(rest),
                          n * Len(UpperLetters) + IndexOf(UpperLetters, Head(rest)))

lettersToColIndex(letters) == lettersLoop(letters, toUpperCase(letters), 0)

\* the decimal digits of a natural number: `${rowIndex + 1}`
RECURSIVE ToDigits(_)
ToDigits(n) ==
    IF n < Len(DigitChars) THEN <<DigitChars[n + 1]>>
    ELSE ToDigits(n \div Len(DigitChars)) \o <<DigitChars[(n % Len(DigitChars)) + 1]>>

rowColToA1(rowIndex, colIndex) == colIndexToLetters(colIndex) \o ToDigits(rowIndex + 1)

sheetCellKeyFromRowCol(row, col) == rowColToA1(row, col)

\* /^([A-Za-z]+)(\d+)$/.exec(a1.trim())
a1ToRowCol(a1) ==
    Const(trim(a1), LAMBDA s :
    Const(LettersEnd(s, 1), LAMBDA j :
    Const(DigitsEnd(s, j), LAMBDA k :
        IF ~(j > 1 /\ k > j /\ k = Len(s) + 1) THEN Thrown(<<"Invalid A1 ref: ">> \o a1)
        ELSE AndThen(lettersToColIndex(SubSeq(s, 1, j - 1)), LAMBDA col :
             Const(DigitsValue(SubSeq(s, j, k - 1), 0) - 1, LAMBDA row :
                 IF row < 0 THEN Thrown(<<"Invalid A1 row: ">> \o a1)
                 ELSE Ok([row |-> row, col |-> col.v]))))))

\* String.prototype.split for a one-character separator
RECURSIVE split(_, _, _)
split(s, sep, cur) ==
    IF s = <<>> THEN <<cur>>
    ELSE IF Head(s) = sep THEN <<cur>> \o split(Tail(s), sep, <<>>)
    ELSE split(Tail(s), sep, Append(cur, Head(s)))

Min2(x, y) == IF x <= y THEN x ELSE y

Max2(x, y) == IF x >= y THEN x ELSE y

\* the labels of rows r0..r1 and columns c0..c1 column by column
rangeLabelsByColumn(r0, r1, c0, c1) ==
    [i \in 1..((r1 - r0 + 1) * (c1 - c0 + 1)) |->
        rowColToA1(r0 + ((i - 1) % (r1 - r0 + 1)), c0 + ((i - 1) \div (r1 - r0 + 1)))]


\* the two nested for loops of expandA1Range: the labels of rows r0..r1 and
\* columns c0..c1 in row-major order
rangeLabels(r0, r1, c0, c1) ==
    [i \in 1..((r1 - r0 + 1) * (c1 - c0 + 1)) |->
        rowColToA1(r0 + ((i - 1) \div (c1 - c0 + 1)), c0 + ((i - 1) % (c1 - c0 + 1)))]

expandA1Range(range) ==
    Const(split(range, ":", <<>>), LAMBDA parts :
        IF Len(parts) < 2 \/ parts[1] = <<>> \/ parts[2] = <<>>
        THEN Thrown(<<"Invalid range: ">> \o range)
        ELSE AndThen(a1ToRowCol(parts[1]), LAMBDA start :
             AndThen(a1ToRowCol(parts[2]), LAMBDA end :
                 Ok(rangeLabels(Min2(start.v.row, end.v.row), Max2(start.v.row, end.v.row),
                                Min2(start.v.col, end.v.col), Max2(start.v.col, end.v.col))))))

(***************************************************************************)
(* Values: number | boolean | string | null | undefined | array            *)
(***************************************************************************)
Bool(b) == [t |-> "bool", b |-> b]

Str(s) == [t |-> "str", s |-> s]

Null == [t |-> "null"]

Undefined == [t |-> "undefined"]

Arr(a) == [t |-> "arr", a |-> a]

\* a coercion without the case for booleans
toNumberNoBoolean(v) ==
    IF v.t = "num" THEN v
    ELSE IF v.t = "str" /\ trim(v.s) # <<>>
         THEN Const(Number(v.s), LAMBDA n : IF isFinite(n) THEN n ELSE NumInt(0))
    ELSE NumInt(0)

toNumber(v) ==
    IF v.t = "num" THEN v
    ELSE IF v.t = "bool" THEN (IF v.b THEN NumInt(1) ELSE NumInt(0))
    ELSE IF v.t = "str" /\ trim(v.s) # <<>>
         THEN Const(Number(v.s), LAMBDA n : IF isFinite(n) THEN n ELSE NumInt(0))
    ELSE NumInt(0)

\* Boolean(v)
Truthy(v) ==
    IF v.t = "num" THEN ~isNaN(v) /\ ~isZero(v)
    ELSE IF v.t = "bool" THEN v.b
    ELSE IF v.t = "str" THEN v.s # <<>>
    ELSE v.t = "arr"

\* x ?? d
Coalesce(x, d) == IF x.t \in {"null", "undefined"} THEN d ELSE x

\* a flattenArg that does not descend into the arrays inside an array
flattenArgShallow(v) ==
    IF v.t = "arr" THEN [i \in DOMAIN v.a |-> toNumber(v.a[i])] ELSE <<toNumber(v)>>


RECURSIVE flattenArg(_)
RECURSIVE flatMapFlatten(_)
flattenArg(v) == IF v.t = "arr" THEN flatMapFlatten(v.a) ELSE <<toNumber(v)>>

flatMapFlatten(a) == IF a = <<>> THEN <<>> ELSE flattenArg(Head(a)) \o flatMapFlatten(Tail(a))

\* nums.reduce((acc, n) => acc + n, 0)
RECURSIVE SumOf(_)
SumOf(nums) == IF nums = <<>> THEN NumInt(0) ELSE NumAdd(SumOf(SubSeq(nums, 1, Len(nums) - 1)), nums[Len(nums)])

\* Math.min(...nums) and Math.max(...nums)
MathMin(nums) ==
    IF nums = <<>> THEN PosInfinity
    ELSE IF \E i \in DOMAIN nums : isNaN(nums[i]) THEN NaN
    ELSE nums[CHOOSE i \in DOMAIN nums : \A j \in DOMAIN nums : ~NumLt(nums[j], nums[i])]

MathMax(nums) ==
    IF nums = <<>> THEN NegInfinity
    ELSE IF \E i \in DOMAIN nums : isNaN(nums[i]) THEN NaN
    ELSE nums[CHOOSE i \in DOMAIN nums : \A j \in DOMAIN nums : ~NumLt(nums[i], nums[j])]

\* the ROUND branch of evalNode
RoundFn(args) ==
    Const(toNumber(IF Len(args) >= 1 THEN args[1] ELSE Undefined), LAMBDA x :
    Const(NumFloor(toNumber(Coalesce(IF Len(args) >= 2 THEN args[2] ELSE Undefined, NumInt(0)))),
          LAMBDA d1 :
    Const(IF isNaN(d1) THEN NaN ELSE MathMax(<<NumInt(0), MathMin(<<NumInt(10), d1>>)>>),
          LAMBDA d :
        IF isNaN(d) THEN NaN
        ELSE Const(NumInt(Pow10(d.n)), LAMBDA f : NumDiv(NumRound(NumMul(x, f)), f)))))

\* case "/": bn === 0 ? 0 : an / bn
DivideIEEE(an, bn) ==
    IF isZero(bn)
    THEN IF isNaN(an) \/ isZero(an) THEN NaN ELSE Num(Sign(an.n), 0)
    ELSE NumDiv(an, bn)

Divide(an, bn) == IF isZero(bn) THEN NumInt(0) ELSE NumDiv(an, bn)

\* the switch (node.op) of evalNode's case "bin"
BinOp(op, an, bn) ==
    IF op = "+" THEN NumAdd(an, bn)
    ELSE IF op = "-" THEN NumSub(an, bn)
    ELSE IF op = "*" THEN NumMul(an, bn)
    ELSE IF op = "/" THEN Divide(an, bn)
    ELSE IF op = "=" THEN Bool(NumEq(an, bn))
    ELSE IF op = "!=" THEN Bool(~NumEq(an, bn))
    ELSE IF op = ">" THEN Bool(NumLt(bn, an))
    ELSE IF op = ">=" THEN Bool(NumLt(bn, an) \/ NumEq(an, bn))
    ELSE IF op = "<" THEN Bool(NumLt(an, bn))
    ELSE IF op = "<=" THEN Bool(NumLt(an, bn) \/ NumEq(an, bn))
    ELSE NumInt(0)

(***************************************************************************)
(* evaluateSheet.  A session ses is what the closures getCell, evalNode    *)
(* and getValue share: the caller's cells, the Map memo, the Map errors,   *)
(* and (for the record only) log, the labels in the order in which their   *)
(* formulas were entered by stack.add.  The Set stack is passed down as a  *)
(* value: every stack.add(ref) is undone by the finally of the same call,  *)
(* so a callee returns with the stack its caller had.                      *)
(***************************************************************************)
EvOk(v, ses) == [thrown |-> FALSE, v |-> v, ses |-> ses]

EvThrown(m, ses) == [thrown |-> TRUE, msg |-> m, ses |-> ses]

\* Map.prototype.set
MapSet(m, key, v) == [x \in (DOMAIN m) \cup {key} |-> IF x = key THEN v ELSE m[x]]

EmptyMap == <<>>

NumNode(n) == [k |-> "num", v |-> NumInt(n)]

SUM == <<"S", "U", "M">>

AVERAGE == <<"A", "V", "E", "R", "A", "G", "E">>

MIN == <<"M", "I", "N">>

MAX == <<"M", "A", "X">>

ROUND == <<"R", "O", "U", "N", "D">>

IFFN == <<"I", "F">>

CYCLE == <<"#CYCLE!">>

\* getCell: sheet.cells[a1.toUpperCase()], undefined for a label without entry
hasCell(ses, a1) == toUpperCase(a1) \in DOMAIN ses.cells

getCell(ses, a1) == ses.cells[toUpperCase(a1)]

RECURSIVE evalNode(_, _, _)
RECURSIVE evalRange(_, _, _, _)
RECURSIVE evalArgs(_, _, _, _)
RECURSIVE getValue(_, _, _)

\* the condition of IF: node.args[0] ?? { k: "num", v: 0 }
IfCond(node) == IF Len(node.args) >= 1 THEN node.args[1] ELSE NumNode(0)

\* the branch of IF that is evaluated after the condition
IfBranch(node, cond) ==
    IF cond THEN (IF Len(node.args) >= 2 THEN node.args[2] ELSE NumNode(0))
    ELSE (IF Len(node.args) >= 3 THEN node.args[3] ELSE NumNode(0))

\* an ApplyFn whose unknown functions return the number of their arguments
ApplyFnUnknownCount(fn, args) ==
    Const(flattenArg(Arr(args)), LAMBDA nums :
        IF fn = SUM THEN SumOf(nums)
        ELSE IF fn = AVERAGE
             THEN (IF Len(nums) = 0 THEN NumInt(0) ELSE NumDiv(SumOf(nums), NumInt(Len(nums))))
        ELSE IF fn = MIN THEN MathMin(nums)
        ELSE IF fn = MAX THEN MathMax(nums)
        ELSE IF fn = ROUND THEN RoundFn(args)
        ELSE NumInt(Len(args)))


\* the functions other than IF, applied to the evaluated arguments
ApplyFn(fn, args) ==
    Const(flattenArg(Arr(args)), LAMBDA nums :
        IF fn = SUM THEN SumOf(nums)
        ELSE IF fn = AVERAGE
             THEN (IF Len(nums) = 0 THEN NumInt(0) ELSE NumDiv(SumOf(nums), NumInt(Len(nums))))
        ELSE IF fn = MIN THEN MathMin(nums)
        ELSE IF fn = MAX THEN MathMax(nums)
        ELSE IF fn = ROUND THEN RoundFn(args)
        ELSE NumInt(0))

\* stack.has(ref)
InStackNever(stack, ref) == FALSE

InStack(stack, ref) == ref \in stack

\* the arguments a call evaluates before it looks at the function name:
\* node.args.map((a) => evalNode(a, stack))
EagerArgs(node) == node.args

evalNode(node, stack, ses) ==
    IF node.k = "num" THEN EvOk(node.v, ses)
    ELSE IF node.k = "cell" THEN getValue(node.ref, stack, ses)
    ELSE IF node.k = "range"
         THEN Const(expandA1Range(node.start \o <<":">> \o node.end), LAMBDA ex :
                  IF ex.thrown THEN EvThrown(ex.msg, ses)
                  ELSE evalRange(ex.v, stack, ses, <<>>))
    ELSE IF node.k = "unary"
         THEN AndThen(evalNode(node.a, stack, ses), LAMBDA a :
                  EvOk(NumNeg(toNumber(a.v)), a.ses))
    ELSE IF node.k = "bin"
         THEN AndThen(evalNode(node.a, stack, ses), LAMBDA a :
              AndThen(evalNode(node.b, stack, a.ses), LAMBDA b :
                  EvOk(BinOp(node.op, toNumber(a.v), toNumber(b.v)), b.ses)))
    ELSE \* node.k = "call"
         AndThen(evalArgs(EagerArgs(node), stack, ses, <<>>), LAMBDA ar :
             IF toUpperCase(node.fn) = IFFN
             THEN AndThen(evalNode(IfCond(node), stack, ar.ses), LAMBDA c :
                      evalNode(IfBranch(node, Truthy(c.v)), stack, c.ses))
             ELSE EvOk(ApplyFn(toUpperCase(node.fn), ar.v), ar.ses))

\* expandA1Range(...).map((a1) => toNumber(getValue(a1, stack)))
evalRange(labels, stack, ses, acc) ==
    IF labels = <<>> THEN EvOk(Arr(acc), ses)
    ELSE AndThen(getValue(Head(labels), stack, ses), LAMBDA r :
             evalRange(Tail(labels), stack, r.ses, Append(acc, toNumber(r.v))))

\* node.args.map((a) => evalNode(a, stack)), left to right
evalArgs(nodes, stack, ses, acc) ==
    IF nodes = <<>> THEN EvOk(acc, ses)
    ELSE AndThen(evalNode(Head(nodes), stack, ses), LAMBDA r :
             evalArgs(Tail(nodes), stack, r.ses, Append(acc, r.v)))

\* what the try block memoizes for ref when evalNode returned v
MemoOnSuccessZero(ses, ref, v) == MapSet(ses.memo, ref, NumInt(0))

\* a try block that returns v without memo.set(ref, v)
MemoOnSuccessForgets(ses, ref, v) == ses.memo

MemoOnSuccess(ses, ref, v) == MapSet(ses.memo, ref, v)

\* the catch block: errors.set(ref, msg); memo.set(ref, 0); return 0
CatchBlockNoMemo(ses, ref, m) ==
    EvOk(NumInt(0), [ses EXCEPT !.errors = MapSet(ses.errors, ref, m)])

CatchBlockRethrow(ses, ref, m) ==
    EvThrown(m, [ses EXCEPT !.errors = MapSet(ses.errors, ref, m),
                            !.memo = MapSet(ses.memo, ref, NumInt(0))])

\* a catch block that also writes the 0 into the cell
CatchBlockWritesCell(ses, ref, m) ==
    EvOk(NumInt(0), [ses EXCEPT !.errors = MapSet(ses.errors, ref, m),
                                !.memo = MapSet(ses.memo, ref, NumInt(0)),
                                !.cells = MapSet(ses.cells, ref, [v |-> NumInt(0), f |-> Undefined])])

\* a catch block that returns 0 and memoizes the message in its place
CatchBlockMemoMessage(ses, ref, m) ==
    EvOk(NumInt(0), [ses EXCEPT !.errors = MapSet(ses.errors, ref, m),
                                !.memo = MapSet(ses.memo, ref, Str(m))])

CatchBlock(ses, ref, m) ==
    EvOk(NumInt(0), [ses EXCEPT !.errors = MapSet(ses.errors, ref, m),
                                !.memo = MapSet(ses.memo, ref, NumInt(0))])

\* a cycle branch that returns 0 without errors.set(ref, "#CYCLE!")
OnCycleSilent(ses, ref) == ses

\* the cycle branch: errors.set(ref, "#CYCLE!"); return 0
OnCycle(ses, ref) == [ses EXCEPT !.errors = MapSet(ses.errors, ref, CYCLE)]

\* what a cell whose f does not start with "=" returns: cell.v ?? 0
NonFormulaValueIsF(cell) == cell.f

NonFormulaValue(cell) == Coalesce(cell.v, NumInt(0))

\* what a cell without f is memoized as and returns: cell.v ?? 0
LiteralValueRaw(cell) == cell.v

LiteralValue(cell) == Coalesce(cell.v, NumInt(0))

\* tokenize(raw.slice(1)) and new Parser(tokens).parse(): the tree, or the Error
parseFormula(raw) == AndThen(tokenize(sliceFrom(raw, 1)), LAMBDA tokens : parse(tokens.v))

\* a try block that evaluates the expression it has parsed before it looks for
\* tokens left over
tryBlockEvalFirst(raw, ref, stack, ses) ==
    Const(tokenize(sliceFrom(raw, 1)), LAMBDA tokens :
        IF tokens.thrown THEN EvThrown(tokens.msg, ses)
        ELSE Const(parseComparison(tokens.v, 0), LAMBDA p :
                 IF p.thrown THEN EvThrown(p.msg, ses)
                 ELSE AndThen(evalNode(p.node, stack \cup {ref}, ses), LAMBDA r :
                          IF p.pos # Len(tokens.v)
                          THEN EvThrown(<<"Unexpected trailing tokens">>, r.ses)
                          ELSE EvOk(r.v, [r.ses EXCEPT !.memo = MemoOnSuccess(r.ses, ref, r.v)]))))

\* the try block of getValue, after stack.add(ref): the value and the session with
\* ref memoized, or the Error thrown and the session it was thrown in
tryBlock(raw, ref, stack, ses) ==
    Const(parseFormula(raw), LAMBDA ast :
        IF ast.thrown THEN EvThrown(ast.msg, ses)
        ELSE AndThen(evalNode(ast.v, stack \cup {ref}, ses), LAMBDA r :
                 EvOk(r.v, [r.ses EXCEPT !.memo = MemoOnSuccess(r.ses, ref, r.v)])))

\* the statements of getValue for a cell that has an entry
getValueOfCell(cell, ref, stack, ses) ==
    IF Truthy(cell.f)
    THEN IF ~startsWith(trim(cell.f.s), "=") THEN EvOk(NonFormulaValue(cell), ses)
         ELSE Const(tryBlock(trim(cell.f.s), ref, stack, [ses EXCEPT !.log = Append(ses.log, ref)]),
                    LAMBDA r : IF r.thrown THEN CatchBlock(r.ses, ref, r.msg) ELSE r)
    ELSE EvOk(LiteralValue(cell), [ses EXCEPT !.memo = MapSet(ses.memo, ref, LiteralValue(cell))])

getValue(a1, stack, ses) ==
    Const(toUpperCase(a1), LAMBDA ref :
        IF ref \in DOMAIN ses.memo THEN EvOk(ses.memo[ref], ses)
        ELSE IF InStack(stack, ref) THEN EvOk(NumInt(0), OnCycle(ses, ref))
        ELSE IF ~hasCell(ses, ref) THEN EvOk(NumInt(0), ses)
        ELSE getValueOfCell(getCell(ses, ref), ref, stack, ses))

\* const get = (a1) => getValue(a1, new Set())
get(a1, ses) == getValue(a1, {}, ses)

\* the errors object evaluateSheet returns: Object.fromEntries(errors.entries()),
\* a copy of the Map's entries made when evaluateSheet returns
ObjectFromEntries(m) == m

\* the session evaluateSheet(sheet) creates
NewSession(sheet) == [cells |-> sheet.cells, memo |-> EmptyMap, errors |-> EmptyMap, log |-> <<>>]

(***************************************************************************)
(* The sheets the caller supplies.  A cell is [v, f]; a missing property   *)
(* is Undefined.  Every sheet is a 2 x 2 grid whose cells A1, B1 and A2    *)
(* are drawn from the pools below and whose cell B2 has no entry.          *)
(***************************************************************************)
\* "=B1+1"
F_B1Plus1 == <<"=", "B", "1", "+", "1">>

\* "=IF(1>2, B1, 99)"
F_IfConstB1 == <<"=", "I", "F", "(", "1", ">", "2", ",", " ", "B", "1", ",", " ", "9", "9", ")">>

\* "=SUM(A1:B1)"
F_SumA1B1 == <<"=", "S", "U", "M", "(", "A", "1", ":", "B", "1", ")">>

\* "=10/B1"
F_TenDivB1 == <<"=", "1", "0", "/", "B", "1">>

\* "=SUM(A0:B1)+B1"
F_BadRange == <<"=", "S", "U", "M", "(", "A", "0", ":", "B", "1", ")", "+", "B", "1">>

\* "=B1:A2"
F_RangeOnly == <<"=", "B", "1", ":", "A", "2">>

\* "=AVERAGE(B1, A2:B2)"
F_Average == <<"=", "A", "V", "E", "R", "A", "G", "E", "(", "B", "1", ",", " ", "A", "2", ":", "B", "2", ")">>

\* "=b1 + foo(A2) + bar"
F_LowerUnknown == <<"=", "b", "1", " ", "+", " ", "f", "o", "o", "(", "A", "2", ")", " ", "+", " ", "b", "a", "r">>

\* "=IF(A2, B1, B2)"
F_IfCellCond == <<"=", "I", "F", "(", "A", "2", ",", " ", "B", "1", ",", " ", "B", "2", ")">>

\* "=A1+1"
F_A1Plus1 == <<"=", "A", "1", "+", "1">>

\* "=1+"
F_UnexpectedEnd == <<"=", "1", "+">>

\* "=A2*2"
F_A2Times2 == <<"=", "A", "2", "*", "2">>

\* "hello"
F_NoEquals == <<"h", "e", "l", "l", "o">>

\* "B1"
F_NoEqualsRef == <<"B", "1">>

\* "=A1"
F_A1 == <<"=", "A", "1">>

\* "=(1"
F_Unclosed == <<"=", "(", "1">>

\* " =1 2"
F_Trailing == <<" ", "=", "1", " ", "2">>

Formula(f) == [v |-> Undefined, f |-> Str(f)]

Literal(v) == [v |-> v, f |-> Undefined]

Absent == [absent |-> TRUE]

PoolA1 ==
    { Formula(F_B1Plus1), Formula(F_IfConstB1), Formula(F_SumA1B1), Formula(F_TenDivB1),
      Formula(F_BadRange), Formula(F_RangeOnly), Formula(F_Average),
      Formula(F_LowerUnknown), Formula(F_IfCellCond), Literal(NumInt(10)) }

PoolB1 ==
    { Formula(F_A1Plus1), Formula(F_UnexpectedEnd), Formula(F_A2Times2), Formula(F_B1Plus1),
      Formula(F_Unclosed), Formula(F_NoEquals), [v |-> NumInt(5), f |-> Str(F_NoEqualsRef)],
      Literal(NumInt(0)), Literal(Str(<<"a", "b", "c">>)), Literal(Null), Literal(Bool(TRUE)),
      Absent }

PoolA2 ==
    { Formula(F_A1), Formula(F_Trailing), Literal(NumInt(3)), Absent }

A1 == <<"A", "1">>

B1 == <<"B", "1">>

A2 == <<"A", "2">>

B2 == <<"B", "2">>

MkCells(a, b, c) ==
    LET all == (A1 :> a) @@ (B1 :> b) @@ (A2 :> c)
    IN [l \in {x \in DOMAIN all : all[x] # Absent} |-> all[l]]

Sheets ==
    { [name |-> "main", rows |-> 2, cols |-> 2, cells |-> MkCells(a, b, c)] :
          a \in PoolA1, b \in PoolB1, c \in PoolA2 }

\* the labels the caller asks get for: A1, B1 and, in lower case, a2; B2 is reached
\* through formulas only
GetLabels == {A1, B1, <<"a", "2">>}

\* the largest number of top-level get calls the model follows in one session
MaxCalls == 3

(***************************************************************************)
(* State                                                                   *)
(***************************************************************************)
VARIABLES
    sheet,        \* the caller's SpreadsheetSpec
    memo,         \* evaluateSheet's Map memo
    errors,       \* evaluateSheet's Map errors
    log,          \* labels whose formula was entered (stack.add), in order
    errorsObj,    \* the errors object evaluateSheet returned
    calls,        \* the top-level get calls made so far: [a1, thrown, v]
    matrix,       \* the matrix of the last buildMatrix(sheet), or NoMatrix
    matrixErrors, \* the Map errors of that buildMatrix's session when it returned
    ctl,          \* what a running get does next: get a label, evaluate a node,
                  \* return a value, throw; Idle between calls
    kont,         \* the frames of the running get, innermost last
    stack,        \* the Set stack of the running get
    result,       \* the last get finished step by step: [a1, thrown, v, pre]
    input,        \* the arguments of a call of a function of the A1 codec, or NoInput
    output,       \* what that call returned or threw, or NoOutput before it ran
    previous,     \* the evaluateSheet session the caller held before the present
                  \* one: [cells, memo, errors, calls], or NoSession
    oauthStates,  \* the rows of table connector_oauth_states: state -> expires_at
    issued,       \* the state values randomId("sfoauth") has produced so far
    requests,     \* the OAuth callback requests: where each one is in its handler
    now,          \* the clock nowEpochMs() reads
    worker,       \* the module variable worker: "null" or "created"
    pending,      \* the Map pending: the ids that have a { resolve, reject } entry
    promises,     \* the promise of each transformRows call: id -> [state, settled, by]
    posted,       \* the messages given to worker.postMessage, in order
    events,       \* the message and error events the worker has raised, in order
    store         \* the state of useDashboardStore: [spec, history, future]

\* the variables of the evaluator and of the A1 codec
sheetVars == <<sheet, memo, errors, log, errorsObj, calls, matrix, matrixErrors,
               ctl, kont, stack, result, input, output, previous>>

\* the variables of the OAuth callbacks, of the transform worker and of the store
oauthVars == <<oauthStates, issued, requests, now>>

workerVars == <<worker, pending, promises, posted, events>>

appVars == <<oauthVars, workerVars, store>>

vars == <<sheet, memo, errors, log, errorsObj, calls, matrix, matrixErrors,
          ctl, kont, stack, result, input, output, previous,
          oauthStates, issued, requests, now, worker, pending, promises, posted, events,
          store>>

Idle == [op |-> "idle"]

NoResult == <<>>

NoMatrix == <<>>

NoInput == [fn |-> "none"]

NoOutput == [none |-> TRUE]

\* no evaluateSheet session before the present one
NoSession == [none |-> TRUE]

\* spec: null of the store created at dashboardStore.ts line 17
NullSpec == "null"

\* the callbacks that may arrive at the OAuth callback route
Requests == {"q1", "q2"}

\* a callback that has not arrived yet
NotArrived == [pc |-> "none"]

\* the module state of the program before any OAuth state was issued, before
\* transformRows was ever called, and with the store as create() built it
InitApp ==
    /\ previous = NoSession
    /\ oauthStates = EmptyMap
    /\ issued = {}
    /\ requests = [q \in Requests |-> NotArrived]
    /\ now = 0
    /\ worker = "null"
    /\ pending = {}
    /\ promises = EmptyMap
    /\ posted = <<>>
    /\ events = <<>>
    /\ store = [spec |-> NullSpec, history |-> <<>>, future |-> <<>>]

Session == [cells |-> sheet.cells, memo |-> memo, errors |-> errors, log |-> log]

\* const { get, errors } = evaluateSheet(sheet): line 360 copies the entries of the
\* Map errors into the returned object before any get has run
evaluateSheet(sh) ==
    LET ses == NewSession(sh)
    IN [ses |-> ses, errors |-> ObjectFromEntries(ses.errors)]

\* the state after const { get, errors } = evaluateSheet(sheet), for a sheet of sheets
InitOn(sheets) ==
    /\ sheet \in sheets
    /\ LET e == evaluateSheet(sheet)
       IN /\ memo = e.ses.memo
          /\ errors = e.ses.errors
          /\ log = e.ses.log
          /\ errorsObj = e.errors
    /\ calls = <<>>
    /\ matrix = NoMatrix
    /\ matrixErrors = EmptyMap
    /\ ctl = Idle
    /\ kont = <<>>
    /\ stack = {}
    /\ result = NoResult
    /\ input = NoInput
    /\ output = NoOutput
    /\ InitApp

Init == InitOn(Sheets)

\* one top-level call get(a1) of the session; the closure works on the caller's
\* sheet.cells itself, so the cells it leaves are the cells the caller has
Get(a1) ==
    /\ Len(calls) < MaxCalls
    /\ \E r \in {get(a1, Session)} :
          /\ sheet' = [sheet EXCEPT !.cells = r.ses.cells]
          /\ memo' = r.ses.memo
          /\ errors' = r.ses.errors
          /\ log' = r.ses.log
          /\ calls' = Append(calls, [a1 |-> a1, thrown |-> r.thrown,
                                     v |-> IF r.thrown THEN Undefined ELSE r.v])
    /\ UNCHANGED <<errorsObj, matrix, matrixErrors, ctl, kont, stack, result, input, output,
                   previous, appVars>>

\* buildMatrix(sheet): its own evaluateSheet session, then one cell after the other
\* in row-major order
\* const v = cell?.f ? get(a1) : cell?.v
cellValue(sh, a1, ses) ==
    IF a1 \in DOMAIN sh.cells /\ Truthy(sh.cells[a1].f) THEN get(a1, ses)
    ELSE EvOk(IF a1 \in DOMAIN sh.cells THEN sh.cells[a1].v ELSE Undefined, ses)

\* { value: err ? `#ERR` : v ?? "" } with err = errors[a1]
matrixCell(errs, a1, v) ==
    [value |-> IF a1 \in DOMAIN errs /\ Truthy(Str(errs[a1])) THEN Str(<<"#ERR">>)
               ELSE Coalesce(v, Str(<<>>))]

\* row.push(cell), and matrix.push(row) for the row that the cell of column 0 starts
pushCell(acc, c, cell) ==
    IF c = 0 THEN Append(acc, <<cell>>) ELSE [acc EXCEPT ![Len(acc)] = Append(@, cell)]

RECURSIVE buildMatrixLoop(_, _, _, _, _)
buildMatrixLoop(sh, i, ses, errs, acc) ==
    IF i >= sh.rows * sh.cols THEN [matrix |-> acc, ses |-> ses]
    ELSE Const(sheetCellKeyFromRowCol(i \div sh.cols, i % sh.cols), LAMBDA a1 :
         Const(cellValue(sh, a1, ses), LAMBDA g :
             buildMatrixLoop(sh, i + 1, g.ses, errs,
                 pushCell(acc, i % sh.cols, matrixCell(errs, a1, g.v)))))

buildMatrix(sh) ==
    Const(evaluateSheet(sh), LAMBDA e : buildMatrixLoop(sh, 0, e.ses, e.errors, <<>>))

BuildMatrix ==
    /\ matrix = NoMatrix
    /\ \E b \in {buildMatrix(sheet)} :
          /\ matrix' = b.matrix
          /\ matrixErrors' = b.ses.errors
    /\ UNCHANGED <<sheet, memo, errors, log, errorsObj, calls, ctl, kont, stack, result,
                   input, output, previous, appVars>>

\* one evaluateSheet session and the get calls its caller makes
Next == \E a1 \in GetLabels : Get(a1)

Spec == Init /\ [][Next]_vars

\* the spreadsheet widget rendering the sheet
NextMatrix == BuildMatrix

SpecMatrix == Init /\ [][NextMatrix]_vars

(***************************************************************************)
(* The same evaluation step by step: one get call runs as a machine whose  *)
(* configuration is the control ctl, the frames kont of the calls of       *)
(* evalNode and getValue that have not returned, the Set stack and the     *)
(* session.  A frame says what its call does with the value returned to    *)
(* it: "top" is the get call, "try" the try block of getValue(ref),        *)
(* "range" the map over a range's labels, "args" the map over a call's     *)
(* arguments, "ifcond" an IF waiting for its condition, "unary", "binL"    *)
(* and "binR" the operators waiting for an operand.                        *)
(***************************************************************************)
\* the deepest nesting of frames the model follows
MaxDepth == 16

Ret(v) == [op |-> "ret", v |-> v]

Throw(m) == [op |-> "throw", msg |-> m]

EvalCtl(node) == [op |-> "eval", node |-> node]

GetCtl(a1) == [op |-> "get", a1 |-> a1]

Config == [ctl |-> ctl, kont |-> kont, stack |-> stack, ses |-> Session]

TopFrame(cfg) == cfg.kont[Len(cfg.kont)]

Pop(cfg) == SubSeq(cfg.kont, 1, Len(cfg.kont) - 1)

Push(cfg, frame) == Append(cfg.kont, frame)

\* the head of getValue(a1, stack), up to the call of evalNode
Enter(cfg, ref) ==
    [cfg EXCEPT !.stack = cfg.stack \cup {ref},
                !.ses.log = Append(cfg.ses.log, ref),
                !.kont = Push(cfg, [f |-> "try", ref |-> ref])]

StepGetOfCell(cfg, cell, ref) ==
    IF Truthy(cell.f)
    THEN IF ~startsWith(trim(cell.f.s), "=") THEN [cfg EXCEPT !.ctl = Ret(NonFormulaValue(cell))]
         ELSE Const(parseFormula(trim(cell.f.s)), LAMBDA ast :
                  [Enter(cfg, ref) EXCEPT
                      !.ctl = IF ast.thrown THEN Throw(ast.msg) ELSE EvalCtl(ast.v)])
    ELSE [cfg EXCEPT !.ctl = Ret(LiteralValue(cell)),
                     !.ses.memo = MapSet(cfg.ses.memo, ref, LiteralValue(cell))]

StepGet(cfg) ==
    Const(toUpperCase(cfg.ctl.a1), LAMBDA ref :
        IF ref \in DOMAIN cfg.ses.memo THEN [cfg EXCEPT !.ctl = Ret(cfg.ses.memo[ref])]
        ELSE IF InStack(cfg.stack, ref)
             THEN [cfg EXCEPT !.ctl = Ret(NumInt(0)), !.ses = OnCycle(cfg.ses, ref)]
        ELSE IF ~hasCell(cfg.ses, ref) THEN [cfg EXCEPT !.ctl = Ret(NumInt(0))]
        ELSE StepGetOfCell(cfg, getCell(cfg.ses, ref), ref))

\* a call whose arguments args are all evaluated: IF goes on to its condition,
\* every other function returns
AfterArgs(cfg, node, args) ==
    IF toUpperCase(node.fn) = IFFN
    THEN [cfg EXCEPT !.ctl = EvalCtl(IfCond(node)),
                     !.kont = Append(@, [f |-> "ifcond", node |-> node])]
    ELSE [cfg EXCEPT !.ctl = Ret(ApplyFn(toUpperCase(node.fn), args))]

\* the switch (node.k) of evalNode, up to its first call
StepEvalNode(cfg, node) ==
    IF node.k = "num" THEN [cfg EXCEPT !.ctl = Ret(node.v)]
    ELSE IF node.k = "cell" THEN [cfg EXCEPT !.ctl = GetCtl(node.ref)]
    ELSE IF node.k = "range"
         THEN Const(expandA1Range(node.start \o <<":">> \o node.end), LAMBDA ex :
                  IF ex.thrown THEN [cfg EXCEPT !.ctl = Throw(ex.msg)]
                  ELSE IF ex.v = <<>> THEN [cfg EXCEPT !.ctl = Ret(Arr(<<>>))]
                  ELSE [cfg EXCEPT !.ctl = GetCtl(Head(ex.v)),
                                   !.kont = Push(cfg, [f |-> "range", rest |-> Tail(ex.v),
                                                       acc |-> <<>>])])
    ELSE IF node.k = "unary"
         THEN [cfg EXCEPT !.ctl = EvalCtl(node.a), !.kont = Push(cfg, [f |-> "unary"])]
    ELSE IF node.k = "bin"
         THEN [cfg EXCEPT !.ctl = EvalCtl(node.a),
                          !.kont = Push(cfg, [f |-> "binL", op |-> node.op, b |-> node.b])]
    ELSE IF EagerArgs(node) = <<>> THEN AfterArgs(cfg, node, <<>>)
    ELSE [cfg EXCEPT !.ctl = EvalCtl(Head(EagerArgs(node))),
                     !.kont = Push(cfg, [f |-> "args", node |-> node,
                                         rest |-> Tail(EagerArgs(node)), acc |-> <<>>])]

StepEval(cfg) == StepEvalNode(cfg, cfg.ctl.node)

\* a value v returned to the innermost frame, which is not the get call itself
\* the frame fr goes on with its next element: the rest of a range or of the arguments
NextElement(cfg, fr, ctl1, acc) ==
    [cfg EXCEPT !.ctl = ctl1,
                !.kont[Len(cfg.kont)] = [fr EXCEPT !.rest = Tail(fr.rest), !.acc = acc]]

StepReturnTo(cfg, fr, v, popped) ==
    IF fr.f = "try"
    THEN [popped EXCEPT !.ses.memo = MemoOnSuccess(cfg.ses, fr.ref, v),
                        !.stack = cfg.stack \ {fr.ref}]
    ELSE IF fr.f = "range"
         THEN Const(Append(fr.acc, toNumber(v)), LAMBDA acc :
                  IF fr.rest = <<>> THEN [popped EXCEPT !.ctl = Ret(Arr(acc))]
                  ELSE NextElement(cfg, fr, GetCtl(Head(fr.rest)), acc))
    ELSE IF fr.f = "unary" THEN [popped EXCEPT !.ctl = Ret(NumNeg(toNumber(v)))]
    ELSE IF fr.f = "binL"
         THEN [cfg EXCEPT !.ctl = EvalCtl(fr.b),
                          !.kont[Len(cfg.kont)] = [f |-> "binR", op |-> fr.op, a |-> v]]
    ELSE IF fr.f = "binR"
         THEN [popped EXCEPT !.ctl = Ret(BinOp(fr.op, toNumber(fr.a), toNumber(v)))]
    ELSE IF fr.f = "args"
         THEN Const(Append(fr.acc, v), LAMBDA acc :
                  IF fr.rest = <<>> THEN AfterArgs(popped, fr.node, acc)
                  ELSE NextElement(cfg, fr, EvalCtl(Head(fr.rest)), acc))
    ELSE \* fr.f = "ifcond"
         [popped EXCEPT !.ctl = EvalCtl(IfBranch(fr.node, Truthy(v)))]

StepReturn(cfg) == StepReturnTo(cfg, TopFrame(cfg), cfg.ctl.v, [cfg EXCEPT !.kont = Pop(cfg)])

\* a try block without finally: the label stays in the Set when the block throws
StepThrowToNoFinally(cfg, fr) ==
    IF fr.f = "try"
    THEN Const(CatchBlock(cfg.ses, fr.ref, cfg.ctl.msg), LAMBDA r :
             [ctl   |-> IF r.thrown THEN Throw(r.msg) ELSE Ret(r.v),
              kont  |-> Pop(cfg),
              stack |-> cfg.stack,
              ses   |-> r.ses])
    ELSE [cfg EXCEPT !.kont = Pop(cfg)]

\* an Error thrown into the innermost frame, which is not the get call itself:
\* the catch and the finally of a try block, and otherwise the frame is left
StepThrowTo(cfg, fr) ==
    IF fr.f = "try"
    THEN Const(CatchBlock(cfg.ses, fr.ref, cfg.ctl.msg), LAMBDA r :
             [ctl   |-> IF r.thrown THEN Throw(r.msg) ELSE Ret(r.v),
              kont  |-> Pop(cfg),
              stack |-> cfg.stack \ {fr.ref},
              ses   |-> r.ses])
    ELSE [cfg EXCEPT !.kont = Pop(cfg)]

StepThrow(cfg) == StepThrowTo(cfg, TopFrame(cfg))

Apply(cfg) ==
    /\ ctl' = cfg.ctl
    /\ kont' = cfg.kont
    /\ stack' = cfg.stack
    /\ memo' = cfg.ses.memo
    /\ errors' = cfg.ses.errors
    /\ log' = cfg.ses.log
    /\ UNCHANGED <<sheet, errorsObj, calls, matrix, matrixErrors, result, input, output,
                   previous, appVars>>

\* the caller calls get(a1): getValue(a1, new Set())
Call(a1) ==
    /\ ctl = Idle
    /\ ctl' = GetCtl(a1)
    /\ kont' = <<[f |-> "top", a1 |-> a1, pre |-> Session]>>
    /\ stack' = {}
    /\ UNCHANGED <<sheet, memo, errors, log, errorsObj, calls, matrix, matrixErrors, result,
                   input, output, previous, appVars>>

GetValueStep ==
    /\ ctl.op = "get"
    /\ Len(kont) < MaxDepth
    /\ \E n \in {StepGet(Config)} : Apply(n)

EvalStep ==
    /\ ctl.op = "eval"
    /\ Len(kont) < MaxDepth
    /\ \E n \in {StepEval(Config)} : Apply(n)

ReturnStep ==
    /\ ctl.op = "ret"
    /\ TopFrame(Config).f # "top"
    /\ \E n \in {StepReturn(Config)} : Apply(n)

ThrowStep ==
    /\ ctl.op = "throw"
    /\ TopFrame(Config).f # "top"
    /\ \E n \in {StepThrow(Config)} : Apply(n)

\* the get call returns to the caller, or throws to the caller
Finish ==
    /\ ctl.op \in {"ret", "throw"}
    /\ TopFrame(Config).f = "top"
    /\ result' = [a1 |-> TopFrame(Config).a1, thrown |-> ctl.op = "throw",
                  v |-> IF ctl.op = "throw" THEN Undefined ELSE ctl.v,
                  pre |-> TopFrame(Config).pre]
    /\ ctl' = Idle
    /\ kont' = <<>>
    /\ UNCHANGED <<sheet, memo, errors, log, errorsObj, calls, matrix, matrixErrors, stack,
                   input, output, previous, appVars>>

Run == GetValueStep \/ EvalStep \/ ReturnStep \/ ThrowStep \/ Finish

NextSteps ==
    \/ \E a1 \in GetLabels : Call(a1)
    \/ GetValueStep
    \/ EvalStep
    \/ ReturnStep
    \/ ThrowStep
    \/ Finish

\* the sheets followed step by step: reference cycles of one, two and three cells,
\* through single references and through ranges, next to formulas that fail
StepSheets ==
    { [name |-> "main", rows |-> 2, cols |-> 2, cells |-> MkCells(a, b, c)] :
          a \in { Formula(F_B1Plus1), Formula(F_SumA1B1), Formula(F_RangeOnly),
                  Formula(F_IfCellCond), Formula(F_BadRange) },
          b \in { Formula(F_A1Plus1), Formula(F_A2Times2), Formula(F_B1Plus1),
                  Formula(F_Unclosed), Literal(NumInt(0)) },
          c \in { Formula(F_A1), Literal(NumInt(3)) } }

InitSteps == Init /\ sheet \in StepSheets

\* a step of the running get is possible: the state predicate ENABLED <<Run>>_vars
RunEnabled == ctl # Idle /\ (ctl.op \in {"get", "eval"} => Len(kont) < MaxDepth)

\* evaluation is synchronous, so a get call that has started keeps running.  This
\* is weak fairness of Run, WF_vars(Run), spelled out by its definition with
\* RunEnabled for ENABLED <<Run>>_vars.
FairRun == ([]<>(~RunEnabled)) \/ ([]<><<Run>>_vars)

SpecSteps == InitSteps /\ [][NextSteps]_vars /\ FairRun

(***************************************************************************)
(* One formula at a time: sheets whose cell A1 holds the formula under     *)
(* test and whose cells B1 and A2 hold what it refers to, and the single   *)
(* call get("A1") of their session.                                        *)
(***************************************************************************)

\* "=A2/B1"
F_A2DivB1 == <<"=", "A", "2", "/", "B", "1">>

\* "=10/0"
F_TenDivZero == <<"=", "1", "0", "/", "0">>

\* "= a2 / (B1)"
F_DivSpaced == <<"=", " ", "a", "2", " ", "/", " ", "(", "B", "1", ")">>

\* "=B1+"
F_EndsEarly == <<"=", "B", "1", "+">>

\* "=B1+)"
F_NoPrimary == <<"=", "B", "1", "+", ")">>

\* "=*A2"
F_LeadingOp == <<"=", "*", "A", "2">>

\* "=(B1+A2"
F_UnclosedRef == <<"=", "(", "B", "1", "+", "A", "2">>

\* "=SUM(B1, A2"
F_UnclosedCall == <<"=", "S", "U", "M", "(", "B", "1", ",", " ", "A", "2">>

\* "=B1 A2"
F_TrailingRef == <<"=", "B", "1", " ", "A", "2">>

\* "=B1)"
F_TrailingParen == <<"=", "B", "1", ")">>

\* "=B1:"
F_ColonOnly == <<"=", "B", "1", ":">>

\* "=SUM(B1:B2)"
F_SumB1B2 == <<"=", "S", "U", "M", "(", "B", "1", ":", "B", "2", ")">>

\* "=SUM(A2, B1:B2, 7)"
F_SumMixed == <<"=", "S", "U", "M", "(", "A", "2", ",", " ", "B", "1", ":", "B", "2", ",", " ", "7", ")">>

\* "=SUM()"
F_SumNone == <<"=", "S", "U", "M", "(", ")">>

\* "=sum(b1, 2)"
F_SumLower == <<"=", "s", "u", "m", "(", "b", "1", ",", " ", "2", ")">>

\* "=AVERAGE(B2:B1)"
F_AverageB1B2 == <<"=", "A", "V", "E", "R", "A", "G", "E", "(", "B", "2", ":", "B", "1", ")">>

\* "=AVERAGE()"
F_AverageNone == <<"=", "A", "V", "E", "R", "A", "G", "E", "(", ")">>

\* "=Average(A2, B1, 4)"
F_AverageScalars == <<"=", "A", "v", "e", "r", "a", "g", "e", "(", "A", "2", ",", " ", "B", "1", ",", " ", "4", ")">>

\* "=SUM(B1:B2, A2:B2)"
F_SumGrid == <<"=", "S", "U", "M", "(", "B", "1", ":", "B", "2", ",", " ", "A", "2", ":", "B", "2", ")">>

\* "=FOO(1,2)"
F_Foo12 == <<"=", "F", "O", "O", "(", "1", ",", "2", ")">>

\* "=foo(A2)"
F_FooA2 == <<"=", "f", "o", "o", "(", "A", "2", ")">>

\* "=bar"
F_Bar == <<"=", "b", "a", "r">>

\* "=BAR+1"
F_BarPlus1 == <<"=", "B", "A", "R", "+", "1">>

\* "=FOO()"
F_FooNone == <<"=", "F", "O", "O", "(", ")">>

\* "=SUMX(B1:B2)"
F_SumxRange == <<"=", "S", "U", "M", "X", "(", "B", "1", ":", "B", "2", ")">>

\* "=COUNT(A2, B1)+2"
F_CountPlus == <<"=", "C", "O", "U", "N", "T", "(", "A", "2", ",", " ", "B", "1", ")", "+", "2">>

\* "=FOO(A0:B1)"
F_FooBadRange == <<"=", "F", "O", "O", "(", "A", "0", ":", "B", "1", ")">>

\* "=FOO(A1)"
F_FooSelf == <<"=", "F", "O", "O", "(", "A", "1", ")">>

\* "=2+3*4"
F_TwoPlusThreeTimesFour == <<"=", "2", "+", "3", "*", "4">>

\* "=10-4-3"
F_TenMinusFourMinusThree == <<"=", "1", "0", "-", "4", "-", "3">>

\* "=-2*3"
F_MinusTwoTimesThree == <<"=", "-", "2", "*", "3">>

\* "=1+2>2"
F_OnePlusTwoGreaterTwo == <<"=", "1", "+", "2", ">", "2">>

\* "=2*-3"
F_TwoTimesMinusThree == <<"=", "2", "*", "-", "3">>

\* "=--2-3"
F_DoubleMinus == <<"=", "-", "-", "2", "-", "3">>

\* "=1<=2!=0"
F_CompareChain == <<"=", "1", "<", "=", "2", "!", "=", "0">>

\* "=8/4/2>=1"
F_DivChain == <<"=", "8", "/", "4", "/", "2", ">", "=", "1">>

\* a sheet with the formula f in A1, b in B1 and c in A2
FormulaSheet(f, b, c) ==
    [name |-> "main", rows |-> 2, cols |-> 2, cells |-> MkCells(Formula(f), b, c)]

\* divisions, over every kind of denominator cell
DivisionSheets ==
    { FormulaSheet(f, b, c) :
          f \in { F_TenDivB1, F_A2DivB1, F_TenDivZero, F_DivSpaced },
          b \in { Literal(NumInt(0)), Literal(Null), Literal(Str(<<>>)), Literal(Str(<<" ">>)),
                  Literal(Str(<<"a", "b", "c">>)), Literal(Bool(FALSE)), Literal(Bool(TRUE)),
                  Literal(NumInt(4)), Literal(Str(<<"2">>)), Literal(Str(<<"0", ".", "0">>)),
                  [v |-> NumInt(0), f |-> Str(F_NoEquals)], Absent },
          c \in { Literal(NumInt(3)), Literal(NumInt(-6)), Absent } }

\* formulas the parser rejects, and formulas it accepts, that mention B1 and A2
SyntaxSheets ==
    { FormulaSheet(f, b, c) :
          f \in { F_EndsEarly, F_NoPrimary, F_LeadingOp, F_UnclosedRef, F_UnclosedCall,
                  F_TrailingRef, F_TrailingParen, F_ColonOnly, F_UnexpectedEnd, F_Unclosed,
                  F_B1Plus1, F_IfCellCond },
          b \in { Formula(F_A2Times2), Formula(F_UnexpectedEnd), Literal(NumInt(5)) },
          c \in { Literal(NumInt(3)), Formula(F_A1) } }

\* SUM and AVERAGE over scalars, ranges and cells without entry
AggregateSheets ==
    { FormulaSheet(f, b, c) :
          f \in { F_SumB1B2, F_SumMixed, F_SumNone, F_SumLower, F_SumGrid, F_Average,
                  F_AverageB1B2, F_AverageNone, F_AverageScalars },
          b \in { Literal(NumInt(5)), Literal(Str(<<"2">>)), Literal(Str(<<"a", "b", "c">>)),
                  Literal(Bool(TRUE)), Literal(Null), Formula(F_A2Times2), Absent },
          c \in { Literal(NumInt(3)), Literal(Num(1, 2)), Absent } }

\* calls of functions the evaluator does not know, and bare identifiers
UnknownFnSheets ==
    { FormulaSheet(f, b, c) :
          f \in { F_Foo12, F_FooA2, F_Bar, F_BarPlus1, F_FooNone, F_SumxRange, F_CountPlus,
                  F_LowerUnknown, F_FooBadRange, F_FooSelf },
          b \in { Literal(NumInt(5)), Formula(F_UnexpectedEnd), Absent },
          c \in { Literal(NumInt(3)), Absent } }

\* the most operands of a generated arithmetic formula
MaxOperands == 3

OperandValues == {2, 3}

Operators == {"+", "-", "*", "/", ">", "="}

\* the text of a formula without parentheses: a first operand, negated or not, and
\* then operator and operand in turn
RECURSIVE FlatText(_, _, _)
FlatText(text, ops, operands) ==
    IF ops = <<>> THEN text
    ELSE FlatText(text \o <<Head(ops)>> \o ToDigits(Head(operands)), Tail(ops), Tail(operands))

FlatFormulas ==
    UNION { { FlatText(<<"=">> \o (IF neg THEN <<"-">> ELSE <<>>) \o ToDigits(first), ops, operands) :
                  neg \in BOOLEAN, first \in OperandValues,
                  ops \in [1..k -> Operators], operands \in [1..k -> OperandValues] } :
            k \in 0..(MaxOperands - 1) }

PrecedenceSheets ==
    { FormulaSheet(f, Absent, Absent) :
          f \in FlatFormulas \cup
                { F_TwoPlusThreeTimesFour, F_TenMinusFourMinusThree, F_MinusTwoTimesThree,
                  F_OnePlusTwoGreaterTwo, F_TwoTimesMinusThree, F_DoubleMinus,
                  F_CompareChain, F_DivChain } }

FormulaSheets ==
    DivisionSheets \cup SyntaxSheets \cup AggregateSheets \cup UnknownFnSheets \cup PrecedenceSheets

InitFormula == InitOn(FormulaSheets)

\* const { get } = evaluateSheet(sheet); get("A1")
Evaluate == calls = <<>> /\ Get(A1)

NextFormula == Evaluate

SpecFormula == InitFormula /\ [][NextFormula]_vars

(***************************************************************************)
(* The A1 coordinate codec called on its own: one call per behaviour, with *)
(* the arguments in input and what the call returned or threw in output    *)
(***************************************************************************)
\* clampSheetKey(sheet, a1)
clampSheetKey(sh, a1) ==
    AndThen(a1ToRowCol(a1), LAMBDA rc :
        IF rc.v.row < 0 \/ rc.v.row >= sh.rows \/ rc.v.col < 0 \/ rc.v.col >= sh.cols
        THEN Thrown(<<"Out of bounds: ">> \o a1)
        ELSE Ok(toUpperCase(a1)))

\* the state in which the caller holds a sheet and is about to make the call input
InitCodec(sheets, inputs) ==
    /\ sheet \in sheets
    /\ memo = EmptyMap
    /\ errors = EmptyMap
    /\ log = <<>>
    /\ errorsObj = EmptyMap
    /\ calls = <<>>
    /\ matrix = NoMatrix
    /\ matrixErrors = EmptyMap
    /\ ctl = Idle
    /\ kont = <<>>
    /\ stack = {}
    /\ result = NoResult
    /\ input \in inputs
    /\ output = NoOutput
    /\ InitApp

\* the call leaves everything but output as it is
Returns(out) ==
    /\ output' = out
    /\ UNCHANGED <<sheet, memo, errors, log, errorsObj, calls, matrix, matrixErrors,
                   ctl, kont, stack, result, input, previous, appVars>>

EmptySheet(rows, cols) == [name |-> "main", rows |-> rows, cols |-> cols, cells |-> EmptyMap]

\* String.prototype.toLowerCase
toLowerCase(s) ==
    [i \in DOMAIN s |->
        IF s[i] \in Range(UpperLetters) THEN LowerLetters[IndexOf(UpperLetters, s[i])] ELSE s[i]]

\* the rows and columns of the corners of the ranges: the first rows and columns,
\* and those around the second digit of the row and the second letter of the column
CornerRows == {0, 1, 8, 9, 10}

CornerCols == {0, 1, 25, 26, 27}

\* the text "a:b" of the range from corner (r0, c0) to corner (r1, c1)
RangeText(r0, c0, r1, c1) == rowColToA1(r0, c0) \o <<":">> \o rowColToA1(r1, c1)

ExpandInputs ==
    { [fn |-> "expandA1Range", from |-> [row |-> r0, col |-> c0], to |-> [row |-> r1, col |-> c1],
       range |-> IF lower THEN toLowerCase(RangeText(r0, c0, r1, c1))
                 ELSE RangeText(r0, c0, r1, c1)] :
          r0 \in CornerRows, c0 \in CornerCols, r1 \in CornerRows, c1 \in CornerCols,
          lower \in BOOLEAN }

InitExpand == InitCodec({EmptySheet(2, 2)}, ExpandInputs)

\* expandA1Range(range)
ExpandA1Range ==
    /\ input.fn = "expandA1Range"
    /\ output = NoOutput
    /\ Returns(expandA1Range(input.range))

NextExpand == ExpandA1Range

SpecExpand == InitExpand /\ [][NextExpand]_vars

\* the largest column index the round trip is followed for: the last one with
\* three letters
MaxCol == 18277

TripRows == {0, 8, 9, 98, 99, 999}

RowColInputs ==
    { [fn |-> "rowColToA1", row |-> r, col |-> c] : r \in TripRows, c \in 0..MaxCol }

InitRowCol == InitCodec({EmptySheet(2, 2)}, RowColInputs)

\* a1ToRowCol(rowColToA1(row, col))
RowColRoundTrip ==
    /\ input.fn = "rowColToA1"
    /\ output = NoOutput
    /\ Returns(a1ToRowCol(rowColToA1(input.row, input.col)))

NextRowCol == RowColRoundTrip

SpecRowCol == InitRowCol /\ [][NextRowCol]_vars

\* labels in and out of the sheet, in upper and lower case, padded, and malformed
ClampLabels ==
    { <<"A", "1">>,
      <<"B", "2">>,
      <<"a", "1">>,
      <<"b", "2">>,
      <<"C", "1">>,
      <<"A", "3">>,
      <<"B", "1">>,
      <<"A", "2">>,
      <<"C", "3">>,
      <<"A", "0">>,
      <<"B", "0">>,
      <<"1", "A">>,
      <<"A">>,
      <<"1">>,
      <<>>,
      <<" ", "A", "1">>,
      <<"A", "1", " ">>,
      <<" ", "b", "2", " ">>,
      <<"A", " ", "1">>,
      <<"A", "1", ":", "B", "2">>,
      <<"A", "A", "1">>,
      <<"A", "0", "1">>,
      <<"A", "-", "1">>,
      <<"$", "A", "$", "1">>,
      <<"A", "1", ".", "0">>,
      <<"A", "b", "2">> }

ClampSheets == { EmptySheet(2, 2), EmptySheet(1, 3), EmptySheet(3, 1), EmptySheet(1, 27) }

InitClamp == InitCodec(ClampSheets, {[fn |-> "clampSheetKey", a1 |-> l] : l \in ClampLabels})

\* clampSheetKey(sheet, a1)
ClampSheetKey ==
    /\ input.fn = "clampSheetKey"
    /\ output = NoOutput
    /\ Returns(clampSheetKey(sheet, input.a1))

NextClamp == ClampSheetKey

SpecClamp == InitClamp /\ [][NextClamp]_vars

(***************************************************************************)
(* How a formula is written: comparisons of a comparison, and references,  *)
(* function names and labels in either letter case.  One get call per      *)
(* session, for the label A1 written in upper or in lower case.            *)
(***************************************************************************)
\* "=2=2=1"
F_ChainTrue == <<"=", "2", "=", "2", "=", "1">>

\* "=B1=A2=1"
F_ChainCells == <<"=", "B", "1", "=", "A", "2", "=", "1">>

\* "=B1>=A2<1"
F_ChainOrder == <<"=", "B", "1", ">", "=", "A", "2", "<", "1">>

\* comparisons of a comparison
ChainSheets ==
    { FormulaSheet(F_ChainTrue, Absent, Absent) }
        \cup { FormulaSheet(f, b, c) :
                   f \in { F_ChainCells, F_ChainOrder },
                   b \in { Literal(NumInt(2)), Literal(Bool(TRUE)), Literal(Str(<<"2">>)) },
                   c \in { Literal(NumInt(2)), Literal(NumInt(3)), Absent } }

\* the characters of an operator
OpText(op) ==
    IF op = ">=" THEN <<">", "=">>
    ELSE IF op = "<=" THEN <<"<", "=">>
    ELSE IF op = "!=" THEN <<"!", "=">>
    ELSE <<op>>

ChainValues == {1, 2, 3}

\* "=a op1 b op2 c" for every pair of comparison operators
ChainFormulas ==
    { <<"=">> \o ToDigits(a) \o OpText(op1) \o ToDigits(b) \o OpText(op2) \o ToDigits(c) :
          a \in ChainValues, b \in ChainValues, c \in ChainValues,
          op1 \in ComparisonOps, op2 \in ComparisonOps }

NotationSheets ==
    ChainSheets \cup { FormulaSheet(f, Absent, Absent) : f \in ChainFormulas }
        \cup DivisionSheets \cup AggregateSheets \cup UnknownFnSheets

NotationLabels == {A1, <<"a", "1">>}

InitNotation == InitOn(NotationSheets)

\* const { get } = evaluateSheet(sheet); get("A1") or get("a1")
EvaluateLabel == calls = <<>> /\ \E a1 \in NotationLabels : Get(a1)

NextNotation == EvaluateLabel

SpecNotation == InitNotation /\ [][NextNotation]_vars

(***************************************************************************)
(* Two sessions: the caller evaluates a sheet, changes one cell, and calls *)
(* evaluateSheet again on the changed sheet.                               *)
(***************************************************************************)
SessionPoolA1 == {Formula(F_B1Plus1), Formula(F_TenDivB1), Formula(F_SumA1B1)}

SessionPoolB1 == {Formula(F_A2Times2), Formula(F_UnexpectedEnd), Literal(NumInt(5))}

SessionPoolA2 == {Literal(NumInt(3))}

SessionSheets ==
    { [name |-> "main", rows |-> 2, cols |-> 2, cells |-> MkCells(a, b, c)] :
          a \in SessionPoolA1, b \in SessionPoolB1, c \in SessionPoolA2 }

\* what the caller writes into the sheet between the two sessions
Edits ==
    { [a1 |-> B1, cell |-> Literal(NumInt(4))],
      [a1 |-> B1, cell |-> Formula(F_Unclosed)],
      [a1 |-> A2, cell |-> Literal(NumInt(7))] }

SessionLabels == {A1, B1}

InitSessions == InitOn(SessionSheets)

\* a second evaluateSheet whose closures go on with the Maps of the first
ReevaluateSharedMaps(a1, cell) ==
    /\ previous = NoSession
    /\ previous' = [cells |-> sheet.cells, memo |-> memo, errors |-> errors, calls |-> calls]
    /\ sheet' = [sheet EXCEPT !.cells = MapSet(sheet.cells, a1, cell)]
    /\ errorsObj' = ObjectFromEntries(errors)
    /\ calls' = <<>>
    /\ UNCHANGED <<memo, errors, log>>
    /\ UNCHANGED <<matrix, matrixErrors, ctl, kont, stack, result, input, output, appVars>>

\* the caller sets sheet.cells[a1] = cell and calls evaluateSheet(sheet) again:
\* lines 257-260 create a new Map memo and a new Map errors for the new closures
Reevaluate(a1, cell) ==
    /\ previous = NoSession
    /\ previous' = [cells |-> sheet.cells, memo |-> memo, errors |-> errors, calls |-> calls]
    /\ sheet' = [sheet EXCEPT !.cells = MapSet(sheet.cells, a1, cell)]
    /\ \E e \in {evaluateSheet(sheet')} :
          /\ memo' = e.ses.memo
          /\ errors' = e.ses.errors
          /\ log' = e.ses.log
          /\ errorsObj' = e.errors
    /\ calls' = <<>>
    /\ UNCHANGED <<matrix, matrixErrors, ctl, kont, stack, result, input, output, appVars>>

NextSessions ==
    \/ \E a1 \in SessionLabels : Get(a1)
    \/ \E e \in Edits : Reevaluate(e.a1, e.cell)

SpecSessions == InitSessions /\ [][NextSessions]_vars


(***************************************************************************)
(* The widget renders the sheet with buildMatrix while a caller holds a    *)
(* session of its own on the same sheet.                                   *)
(***************************************************************************)
InitRender == InitOn(StepSheets)

NextRender ==
    \/ \E a1 \in GetLabels : Get(a1)
    \/ BuildMatrix

SpecRender == InitRender /\ [][NextRender]_vars


(***************************************************************************)
(* The OAuth state of the Salesforce connector (worker, part_006): the     *)
(* start handler stores a random state value with an expiry time, and the  *)
(* callback handler takes it with dbTakeOauthState.  Every awaited D1      *)
(* statement is one step; requests are served concurrently, so the steps   *)
(* of two callbacks interleave.                                            *)
(***************************************************************************)
\* the state values a callback URL may carry
OauthStateValues == {"sfoauth_1", "sfoauth_2"}

\* the time the model follows the clock for
MaxNow == 3

\* expiresAt = nowEpochMs() + 10 * 60 * 1000, in ticks of the model's clock
StateLifetime == 2

\* dbCleanupExpiredOauthStates: DELETE ... WHERE expires_at <= now
CleanupExpiredOauthStates ==
    /\ oauthStates' = [s \in {x \in DOMAIN oauthStates : oauthStates[x] > now} |-> oauthStates[s]]
    /\ UNCHANGED <<sheetVars, issued, requests, now, workerVars, store>>

\* the start handler: const state = randomId("sfoauth"), a value not produced
\* before, and dbInsertOauthState with expiresAt
InsertOauthState(state) ==
    /\ state \notin issued
    /\ issued' = issued \cup {state}
    /\ oauthStates' = MapSet(oauthStates, state, now + StateLifetime)
    /\ UNCHANGED <<sheetVars, requests, now, workerVars, store>>

\* a callback arrives with state and code in its URL and calls dbTakeOauthState
CallbackArrives(q, state) ==
    /\ requests[q] = NotArrived
    /\ requests' = [requests EXCEPT ![q] = [pc |-> "select", state |-> state]]
    /\ UNCHANGED <<sheetVars, oauthStates, issued, now, workerVars, store>>

\* SELECT ... WHERE state = ? LIMIT 1, and if (!row) return null, answered with
\* "State expired or invalid"
SelectOauthState(q) ==
    /\ requests[q].pc = "select"
    /\ requests' = [requests EXCEPT ![q] =
           IF requests[q].state \in DOMAIN oauthStates
           THEN [pc |-> "delete", state |-> requests[q].state,
                 row |-> [state |-> requests[q].state,
                          expires_at |-> oauthStates[requests[q].state]]]
           ELSE [pc |-> "done", state |-> requests[q].state, accepted |-> FALSE]]
    /\ UNCHANGED <<sheetVars, oauthStates, issued, now, workerVars, store>>

\* DELETE FROM connector_oauth_states WHERE state = ?
DeleteOauthState(q) ==
    /\ requests[q].pc = "delete"
    /\ oauthStates' = [s \in DOMAIN oauthStates \ {requests[q].state} |-> oauthStates[s]]
    /\ requests' = [requests EXCEPT ![q].pc = "check"]
    /\ UNCHANGED <<sheetVars, issued, now, workerVars, store>>

\* if (row.expires_at <= nowEpochMs()) return null; return row, and the handler
\* goes on with the row or answers "State expired or invalid"
ReturnOauthState(q) ==
    /\ requests[q].pc = "check"
    /\ requests' = [requests EXCEPT ![q] =
           [pc |-> "done", state |-> requests[q].state,
            accepted |-> ~(requests[q].row.expires_at <= now)]]
    /\ UNCHANGED <<sheetVars, oauthStates, issued, now, workerVars, store>>

\* time passes
Tick ==
    /\ now < MaxNow
    /\ now' = now + 1
    /\ UNCHANGED <<sheetVars, oauthStates, issued, requests, workerVars, store>>

InitOauth == InitOn({EmptySheet(1, 1)})

NextOauth ==
    \/ CleanupExpiredOauthStates
    \/ \E state \in OauthStateValues : InsertOauthState(state)
    \/ \E q \in Requests, state \in OauthStateValues : CallbackArrives(q, state)
    \/ \E q \in Requests : SelectOauthState(q)
    \/ \E q \in Requests : DeleteOauthState(q)
    \/ \E q \in Requests : ReturnOauthState(q)
    \/ Tick

SpecOauth == InitOauth /\ [][NextOauth]_vars


(***************************************************************************)
(* The client of the transform worker (formula.ts, transformRows): the     *)
(* module variables worker and pending, the promise of every call, and the *)
(* message and error events of the worker.  The worker's script is not     *)
(* part of the model: it may answer with any id, any number of times and   *)
(* in any order, and it may fail.  The ids of randomId() are taken to be   *)
(* new at every call; the i-th call is given the id i.                     *)
(***************************************************************************)
\* the number of transformRows calls the model follows
MaxTransforms == 2

\* the number of events of the worker the model follows
MaxEvents == 3

\* the ids a message of the worker may carry: those of the calls, and 0, an id no
\* transformRows call is ever given
MessageIds == 0..MaxTransforms

\* transformRows(rows, transform): ensureWorker(), the promise whose executor
\* sets pending[id], and w.postMessage
TransformRows ==
    /\ Len(posted) < MaxTransforms
    /\ \E id \in {Len(posted) + 1} :
          /\ worker' = "created"
          /\ pending' = pending \cup {id}
          /\ promises' = MapSet(promises, id, [state |-> "pending", settled |-> 0,
                                                by |-> 0, at |-> Len(events)])
          /\ posted' = Append(posted, id)
    /\ UNCHANGED <<sheetVars, oauthVars, events, store>>

\* p.resolve or p.reject called on the promise of id by the event number by
Settle(ps, id, outcome, by) ==
    [ps EXCEPT ![id] = [@ EXCEPT !.state = IF @ = "pending" THEN outcome ELSE @,
                                 !.settled = @ + 1,
                                 !.by = IF ps[id].state = "pending" THEN by ELSE @]]

\* an onmessage handler that leaves the entry in pending
OnMessageKeepsEntry(id, error) ==
    /\ worker = "created"
    /\ Len(events) < MaxEvents
    /\ events' = Append(events, [kind |-> "message", id |-> id, error |-> error])
    /\ IF id \notin pending THEN UNCHANGED <<pending, promises>>
       ELSE /\ pending' = pending
            /\ promises' = Settle(promises, id, IF error THEN "rejected" ELSE "resolved",
                                  Len(events) + 1)
    /\ UNCHANGED <<sheetVars, oauthVars, worker, posted, store>>

\* worker.onmessage with the message { id, rows, error }
OnMessage(id, error) ==
    /\ worker = "created"
    /\ Len(events) < MaxEvents
    /\ events' = Append(events, [kind |-> "message", id |-> id, error |-> error])
    /\ IF id \notin pending THEN UNCHANGED <<pending, promises>>
       ELSE /\ pending' = pending \ {id}
            /\ promises' = Settle(promises, id, IF error THEN "rejected" ELSE "resolved",
                                  Len(events) + 1)
    /\ UNCHANGED <<sheetVars, oauthVars, worker, posted, store>>

RECURSIVE SettleAll(_, _, _, _)
\* for (const [, p] of pending) p.reject(...)
SettleAll(ps, ids, outcome, by) ==
    IF ids = {} THEN ps
    ELSE LET id == CHOOSE x \in ids : TRUE
         IN SettleAll(Settle(ps, id, outcome, by), ids \ {id}, outcome, by)

\* worker.onerror
OnError ==
    /\ worker = "created"
    /\ Len(events) < MaxEvents
    /\ events' = Append(events, [kind |-> "error"])
    /\ promises' = SettleAll(promises, pending, "rejected", Len(events) + 1)
    /\ pending' = {}
    /\ UNCHANGED <<sheetVars, oauthVars, worker, posted, store>>

InitWorker == InitOn({EmptySheet(1, 1)})

NextWorker ==
    \/ TransformRows
    \/ \E id \in MessageIds, error \in BOOLEAN : OnMessage(id, error)
    \/ OnError

SpecWorker == InitWorker /\ [][NextWorker]_vars


(***************************************************************************)
(* The dashboard store (state/dashboardStore.ts): spec, history and future *)
(* and the operations of the store.  A DashboardSpec is one of SpecValues. *)
(***************************************************************************)
SpecValues == {"spec_a", "spec_b", "spec_c"}

\* the longest history the model follows
MaxHistory == 3

\* an undo that forgets the specs that could be redone
UndoDropsFuture(state) ==
    IF Len(state.history) = 0 \/ state.spec = NullSpec THEN state
    ELSE [spec    |-> state.history[Len(state.history)],
          history |-> SubSeq(state.history, 1, Len(state.history) - 1),
          future  |-> <<state.spec>>]

\* the function undo gives to set
Undo(state) ==
    IF Len(state.history) = 0 \/ state.spec = NullSpec THEN state
    ELSE [spec    |-> state.history[Len(state.history)],
          history |-> SubSeq(state.history, 1, Len(state.history) - 1),
          future  |-> <<state.spec>> \o state.future]

\* the function redo gives to set
Redo(state) ==
    IF Len(state.future) = 0 \/ state.spec = NullSpec THEN state
    ELSE [spec    |-> state.future[1],
          history |-> Append(state.history, state.spec),
          future  |-> Tail(state.future)]

StoreUnchanged == UNCHANGED <<sheetVars, oauthVars, workerVars>>

setSpec(spec) ==
    /\ store' = [spec |-> spec, history |-> <<>>, future |-> <<>>]
    /\ StoreUnchanged

replaceSpec(spec) ==
    /\ store' = [store EXCEPT !.spec = spec]
    /\ StoreUnchanged

pushSpec(spec) ==
    /\ Len(store.history) < MaxHistory
    /\ store' = [spec    |-> spec,
                 history |-> IF store.spec # NullSpec THEN Append(store.history, store.spec)
                             ELSE store.history,
                 future  |-> <<>>]
    /\ StoreUnchanged

\* updateSpec(updater), with next the spec the updater returns
updateSpec(next) ==
    /\ store.spec # NullSpec
    /\ Len(store.history) < MaxHistory
    /\ store' = [spec |-> next, history |-> Append(store.history, store.spec), future |-> <<>>]
    /\ StoreUnchanged

undo ==
    /\ store' = Undo(store)
    /\ StoreUnchanged

redo ==
    /\ store' = Redo(store)
    /\ StoreUnchanged

InitStore == InitOn({EmptySheet(1, 1)})

NextStore ==
    \/ \E spec \in SpecValues : setSpec(spec)
    \/ \E spec \in SpecValues : replaceSpec(spec)
    \/ \E spec \in SpecValues : pushSpec(spec)
    \/ \E next \in SpecValues : updateSpec(next)
    \/ undo
    \/ redo

SpecStore == InitStore /\ [][NextStore]_vars


(***************************************************************************)
(* Vocabulary of the properties                                            *)
(***************************************************************************)
Zero == NumInt(0)

CallLabels == [i \in DOMAIN calls |-> calls[i].a1]

\* the label a call resolves: a1.toUpperCase()
CallRef(i) == toUpperCase(calls[i].a1)

\* l has an entry whose f is a formula (truthy and, trimmed, starting with "=")
IsFormulaCell(sh, l) ==
    /\ l \in DOMAIN sh.cells
    /\ Truthy(sh.cells[l].f)
    /\ startsWith(trim(sh.cells[l].f.s), "=")

\* l has an entry whose f is a string that does not start with "="
IsNonFormulaF(sh, l) ==
    /\ l \in DOMAIN sh.cells
    /\ Truthy(sh.cells[l].f)
    /\ ~startsWith(trim(sh.cells[l].f.s), "=")

\* l has an entry without a (non-empty) f
IsLiteralCell(sh, l) == l \in DOMAIN sh.cells /\ ~Truthy(sh.cells[l].f)

TokensOf(sh, l) == tokenize(sliceFrom(trim(sh.cells[l].f.s), 1))

AstOf(sh, l) == parse(TokensOf(sh, l).v)

\* the formula of l cannot be tokenized or cannot be parsed
SyntaxInvalid(sh, l) ==
    IsFormulaCell(sh, l) /\ LET tk == TokensOf(sh, l) IN tk.thrown \/ parse(tk.v).thrown

Parses(sh, l) == IsFormulaCell(sh, l) /\ ~SyntaxInvalid(sh, l)

\* the messages of the range nodes of a tree whose expansion throws
RECURSIVE BadRangeMsgs(_)
BadRangeMsgs(node) ==
    IF node.k = "range"
    THEN LET ex == expandA1Range(node.start \o <<":">> \o node.end)
         IN IF ex.thrown THEN {ex.msg} ELSE {}
    ELSE IF node.k = "unary" THEN BadRangeMsgs(node.a)
    ELSE IF node.k = "bin" THEN BadRangeMsgs(node.a) \cup BadRangeMsgs(node.b)
    ELSE IF node.k = "call" THEN UNION {BadRangeMsgs(node.args[i]) : i \in DOMAIN node.args}
    ELSE {}

\* the messages of the errors the formula of l itself can raise
OwnErrorMsgs(sh, l) ==
    IF ~IsFormulaCell(sh, l) THEN {}
    ELSE LET tk == TokensOf(sh, l)
         IN IF tk.thrown THEN {tk.msg}
            ELSE LET ast == parse(tk.v)
                 IN IF ast.thrown THEN {ast.msg} ELSE BadRangeMsgs(ast.v)

\* the labels a tree mentions, as single references or inside a range
RECURSIVE NodeRefs(_)
NodeRefs(node) ==
    IF node.k = "cell" THEN {node.ref}
    ELSE IF node.k = "range"
         THEN LET ex == expandA1Range(node.start \o <<":">> \o node.end)
              IN IF ex.thrown THEN {} ELSE Range(ex.v)
    ELSE IF node.k = "unary" THEN NodeRefs(node.a)
    ELSE IF node.k = "bin" THEN NodeRefs(node.a) \cup NodeRefs(node.b)
    ELSE IF node.k = "call" THEN UNION {NodeRefs(node.args[i]) : i \in DOMAIN node.args}
    ELSE {}

\* the labels the formula of l mentions, for a formula that parses and whose
\* ranges all expand
CellRefs(sh, l) ==
    IF ~IsFormulaCell(sh, l) THEN {}
    ELSE LET tk == TokensOf(sh, l)
         IN IF tk.thrown THEN {}
            ELSE LET ast == parse(tk.v)
                 IN IF ast.thrown \/ BadRangeMsgs(ast.v) # {} THEN {} ELSE NodeRefs(ast.v)

RECURSIVE ReachFrom(_, _)
ReachFrom(sh, S) ==
    LET T == S \cup UNION {CellRefs(sh, l) : l \in S}
    IN IF T = S THEN S ELSE ReachFrom(sh, T)

\* l lies on a reference cycle of formulas
OnRefCycle(sh, l) == CellRefs(sh, l) # {} /\ l \in ReachFrom(sh, CellRefs(sh, l))

\* the values a fresh session on sh returns for the get calls labels
RECURSIVE Replay(_, _)
Replay(labels, ses) ==
    IF labels = <<>> THEN <<>>
    ELSE LET r == get(Head(labels), ses)
         IN <<IF r.thrown THEN Undefined ELSE r.v>> \o Replay(Tail(labels), r.ses)

WithCell(sh, l, cell) ==
    [sh EXCEPT !.cells = [x \in (DOMAIN sh.cells) \cup {l} |-> IF x = l THEN cell ELSE sh.cells[x]]]

GridLabels(sh) == {rowColToA1(r, c) : r \in 0..(sh.rows - 1), c \in 0..(sh.cols - 1)}

(***************************************************************************)
(* Properties                                                              *)
(***************************************************************************)
\* C1: no get call throws; every formula cell that was entered and whose own
\* formula raises a tokenizer, parser or range-expansion error has that message
\* recorded under its own label and is memoized as 0; and an error message
\* other than #CYCLE! is recorded only under the label of the cell that raised it.
C1_ErrorsCaughtAtCell ==
    /\ \A i \in DOMAIN calls : ~calls[i].thrown
    /\ \A l \in Range(log) \cup DOMAIN errors :
          LET own == OwnErrorMsgs(sheet, l)
          IN /\ (l \in Range(log) /\ own # {}) =>
                    /\ l \in DOMAIN errors /\ errors[l] \in own
                    /\ l \in DOMAIN memo /\ memo[l] = Zero
             /\ (l \in DOMAIN errors /\ errors[l] # CYCLE) =>
                    l \in Range(log) /\ errors[l] \in own

\* a get of one cell has resolved another cell whose formula raised an error
C1_Witness ==
    /\ Len(calls) = 1
    /\ \E l \in DOMAIN errors :
          /\ l # CallRef(1)
          /\ errors[l] # CYCLE
          /\ memo[l] = Zero
          /\ CallRef(1) \in DOMAIN memo

\* C2: after a get of a cell that lies on a reference cycle, the errors object
\* evaluateSheet returned holds "#CYCLE!" under a cell of the sheet.
C2_ReturnedErrorsHoldCycle ==
    \A i \in DOMAIN calls :
        OnRefCycle(sheet, CallRef(i)) =>
            \E l \in DOMAIN errorsObj : errorsObj[l] = CYCLE

\* C3: after a single get of a cell whose formula is IF(cond, a, b) with a
\* constant cond, no cell that only the branch not selected leads to has been
\* entered, memoized or given an error.
C3_IfEvaluatesOneBranch ==
    (Len(calls) = 1 /\ Parses(sheet, CallRef(1))) =>
        LET l   == CallRef(1)
            ast == AstOf(sheet, l).v
        IN (ast.k = "call" /\ toUpperCase(ast.fn) = IFFN /\ Len(ast.args) = 3
                /\ NodeRefs(ast.args[1]) = {}) =>
           LET cond  == Truthy(evalNode(ast.args[1], {}, NewSession(sheet)).v)
               sel   == IF cond THEN ast.args[2] ELSE ast.args[3]
               other == IF cond THEN ast.args[3] ELSE ast.args[2]
           IN \A x \in NodeRefs(other) \ (ReachFrom(sheet, NodeRefs(sel)) \cup {l}) :
                  /\ x \notin DOMAIN memo
                  /\ x \notin DOMAIN errors
                  /\ x \notin Range(log)

\* C4: every cell under which "#CYCLE!" is recorded is memoized with value 0
\* once the top-level get has returned.
C4_CycleCellMemoizedZero ==
    \A l \in DOMAIN errors :
        errors[l] = CYCLE => l \in DOMAIN memo /\ memo[l] = Zero

\* C5: a get of a label that was requested before in the session returns the
\* value the first request returned.
C5_RepeatedGetSameValue ==
    \A i, j \in DOMAIN calls :
        (i < j /\ calls[i].a1 = calls[j].a1) =>
            /\ ~calls[j].thrown
            /\ calls[j].v = calls[i].v

\* a cell on which a cycle was detected is requested, then another label, then
\* the cell again
C5_Witness ==
    /\ Len(calls) = 3
    /\ calls[1].a1 = calls[3].a1
    /\ calls[2].a1 # calls[1].a1
    /\ CallRef(1) \in DOMAIN errors
    /\ errors[CallRef(1)] = CYCLE
    /\ calls[1].v # Zero

\* C7: replacing a syntactically invalid formula cell by the literal 0 leaves the
\* value of every get of another cell unchanged.
C7_InvalidCellActsAsZero ==
    \A l \in DOMAIN sheet.cells :
        SyntaxInvalid(sheet, l) =>
            LET other == Replay(CallLabels, NewSession(WithCell(sheet, l, Literal(Zero))))
            IN \A i \in DOMAIN calls : CallRef(i) # l => other[i] = calls[i].v

\* a cell that references a syntactically invalid cell was requested and got a
\* value other than 0
C7_Witness ==
    \E i \in DOMAIN calls : \E l \in DOMAIN sheet.cells :
        /\ SyntaxInvalid(sheet, l)
        /\ CallRef(i) # l
        /\ l \in CellRefs(sheet, CallRef(i))
        /\ l \in DOMAIN errors
        /\ calls[i].v # Zero

\* C8: once buildMatrix has run, the matrix shows the error marker for exactly the
\* cells under which the resolution recorded an error.
C8_MatrixMarksExactlyErrors ==
    matrix # NoMatrix =>
        \A r \in 0..(sheet.rows - 1), c \in 0..(sheet.cols - 1) :
            LET a1 == rowColToA1(r, c)
            IN (matrix[r + 1][c + 1].value = Str(<<"#ERR">>)) <=> (a1 \in DOMAIN matrixErrors)

\* C9 as stated: a get of a cell whose f does not start with "=" returns that
\* string, and the cell is neither entered nor given an error.
C9_NonFormulaReturnsString ==
    \A i \in DOMAIN calls :
        IsNonFormulaF(sheet, CallRef(i)) =>
            /\ calls[i].v = sheet.cells[CallRef(i)].f
            /\ CallRef(i) \notin Range(log)
            /\ CallRef(i) \notin DOMAIN errors

\* C9 amended: a get of a cell whose f does not start with "=" returns the cell's
\* v, or 0 when v is null or missing, and the cell is neither entered (tokenized,
\* parsed) nor given an error.
C9_NonFormulaReturnsV ==
    \A i \in DOMAIN calls :
        IsNonFormulaF(sheet, CallRef(i)) =>
            /\ ~calls[i].thrown
            /\ calls[i].v = Coalesce(sheet.cells[CallRef(i)].v, Zero)
            /\ CallRef(i) \notin Range(log)
            /\ CallRef(i) \notin DOMAIN errors

\* a cell with f "B1" and v 5 was requested
C9_Witness ==
    \E i \in DOMAIN calls :
        /\ IsNonFormulaF(sheet, CallRef(i))
        /\ sheet.cells[CallRef(i)].v = NumInt(5)
        /\ calls[i].v = NumInt(5)

\* C10: a get of a label without entry returns 0; no error is ever recorded under
\* a label without entry; giving a label without entry the literal 0 changes the
\* value of no get call; and a get of a cell without formula returns its v, or 0
\* when v is null or missing.
C10_AbsentAndLiteralCells ==
    /\ \A i \in DOMAIN calls :
          /\ CallRef(i) \notin DOMAIN sheet.cells => calls[i].v = Zero
          /\ IsLiteralCell(sheet, CallRef(i)) =>
                 calls[i].v = (IF sheet.cells[CallRef(i)].v \in {Null, Undefined}
                               THEN Zero ELSE sheet.cells[CallRef(i)].v)
    /\ \A l \in GridLabels(sheet) \ DOMAIN sheet.cells :
          /\ l \notin DOMAIN errors
          /\ Replay(CallLabels, NewSession(WithCell(sheet, l, Literal(Zero))))
                 = [i \in DOMAIN calls |-> calls[i].v]

\* a formula that mentions a label without entry was requested and got a value
\* other than 0, and a cell whose literal is null was requested
C10_Witness ==
    /\ \E i \in DOMAIN calls :
          /\ CellRefs(sheet, CallRef(i)) \ DOMAIN sheet.cells # {}
          /\ calls[i].v \notin {Zero, Undefined}
    /\ \E i \in DOMAIN calls :
          /\ IsLiteralCell(sheet, CallRef(i))
          /\ sheet.cells[CallRef(i)].v = Null

\* the step-by-step run of a get call ends with the value and the session that
\* getValue computes in one piece
StepsAgreeWithGet ==
    (ctl = Idle /\ result # NoResult) =>
        LET r == get(result.a1, result.pre)
        IN /\ r.thrown = result.thrown
           /\ ~r.thrown => r.v = result.v
           /\ r.ses = Session
           /\ stack = {}

\* C6: every get call that has started terminates (returns to its caller).
C6_GetTerminates == (ctl # Idle) ~> (ctl = Idle)

\* a get call on a cell of a reference cycle has run and returned
C6_Witness ==
    /\ ctl = Idle
    /\ result # NoResult
    /\ OnRefCycle(sheet, toUpperCase(result.a1))
    /\ \E l \in DOMAIN errors : errors[l] = CYCLE

\* the frames of a running get never reach the bound of the model
DepthWithinBound == Len(kont) < MaxDepth

\* C11: every get call returns a scalar: a number, a boolean or a string, never
\* the array of a range.
C11_GetReturnsScalar ==
    \A i \in DOMAIN calls : calls[i].v.t \in {"num", "bool", "str"}

\* the number a cell without formula counts as: toNumber(cell.v ?? 0), and 0 for a
\* label without entry
PlainNumber(sh, l) ==
    IF l \notin DOMAIN sh.cells THEN Zero ELSE toNumber(Coalesce(sh.cells[l].v, Zero))

\* a number literal, or a reference to a cell that holds no formula
IsPlainOperand(sh, node) ==
    node.k = "num" \/ (node.k = "cell" /\ ~IsFormulaCell(sh, node.ref))

OperandNumber(sh, node) == IF node.k = "num" THEN node.v ELSE PlainNumber(sh, node.ref)

\* the formula of l is x / y with plain operands
IsPlainDivision(sh, l) ==
    /\ Parses(sh, l)
    /\ LET ast == AstOf(sh, l).v
       IN /\ ast.k = "bin"
          /\ ast.op = "/"
          /\ IsPlainOperand(sh, ast.a)
          /\ IsPlainOperand(sh, ast.b)

\* C12: a get of a cell whose formula is x / y, with y the literal 0, a label
\* without entry or a cell whose value coerces to 0 (0, null, an empty or
\* non-numeric string, false), returns 0 and records no error for the cell.
C12_DivisionByZeroIsZero ==
    \A i \in DOMAIN calls :
        (IsPlainDivision(sheet, CallRef(i))
            /\ isZero(OperandNumber(sheet, AstOf(sheet, CallRef(i)).v.b))) =>
                /\ ~calls[i].thrown
                /\ calls[i].v = Zero
                /\ CallRef(i) \notin DOMAIN errors

\* a non-zero numerator was divided by a cell holding a non-numeric string, and
\* by a cell holding false
C12_Witness ==
    /\ calls # <<>>
    /\ IsPlainDivision(sheet, CallRef(1))
    /\ LET ast == AstOf(sheet, CallRef(1)).v
       IN /\ ~isZero(OperandNumber(sheet, ast.a))
          /\ ast.b.k = "cell"
          /\ ast.b.ref \in DOMAIN sheet.cells
          /\ sheet.cells[ast.b.ref].v \in {Str(<<"a", "b", "c">>), Bool(FALSE)}
          /\ calls[1].v = Zero

\* how tightly a binary operator binds: comparison 1, additive 2, multiplicative 3
Level(op) == IF op \in ComparisonOps THEN 1 ELSE IF op \in {"+", "-"} THEN 2 ELSE 3

\* the places of the binary operators in tokens: an operator that follows a number
BinaryPlaces(tokens) ==
    {i \in DOMAIN tokens : tokens[i].t = "op" /\ i > 1 /\ tokens[i - 1].t = "num"}

\* tokens are an arithmetic formula without parentheses: numbers separated by one
\* binary operator each, every number preceded by any number of unary minus signs
FlatArithmetic(tokens) ==
    /\ tokens # <<>>
    /\ tokens[Len(tokens)].t = "num"
    /\ \A i \in DOMAIN tokens :
          /\ tokens[i].t \in {"num", "op"}
          /\ (tokens[i].t = "num" /\ i > 1) => tokens[i - 1].t = "op"
          /\ (tokens[i].t = "op" /\ i \notin BinaryPlaces(tokens)) => tokens[i].v = "-"

\* the tree the rules of the grammar give a flat formula: it is split at the last
\* of its loosest binary operators; without one it is a number under its signs
RECURSIVE RuleTree(_)
RuleTree(tokens) ==
    LET B == BinaryPlaces(tokens)
    IN IF B = {}
       THEN IF tokens[1].t = "num" THEN [k |-> "num", v |-> tokens[1].v]
            ELSE [k |-> "unary", op |-> "-", a |-> RuleTree(Tail(tokens))]
       ELSE LET low == CHOOSE n \in 1..3 :
                           /\ \E i \in B : Level(tokens[i].v) = n
                           /\ \A i \in B : Level(tokens[i].v) >= n
                at  == CHOOSE i \in B :
                           /\ Level(tokens[i].v) = low
                           /\ \A j \in B : Level(tokens[j].v) = low => j <= i
            IN [k |-> "bin", op |-> tokens[at].v,
                a |-> RuleTree(SubSeq(tokens, 1, at - 1)),
                b |-> RuleTree(SubSeq(tokens, at + 1, Len(tokens)))]

\* the fully parenthesised text of a tree of natural numbers
RECURSIVE ParenText(_)
ParenText(node) ==
    IF node.k = "num" THEN ToDigits(node.v.n)
    ELSE IF node.k = "unary" THEN <<"(", "-">> \o ParenText(node.a) \o <<")">>
    ELSE <<"(">> \o ParenText(node.a) \o OpText(node.op) \o ParenText(node.b) \o <<")">>

\* what get("A1") returns on a sheet whose only cell is A1 with the formula text
ValueOfText(text) ==
    LET r == get(A1, NewSession(FormulaSheet(<<"=">> \o text, Absent, Absent)))
    IN IF r.thrown THEN Undefined ELSE r.v

\* the values the specification gives as examples
ExampleValues ==
    (F_TwoPlusThreeTimesFour :> NumInt(14)) @@ (F_TenMinusFourMinusThree :> NumInt(3))
        @@ (F_MinusTwoTimesThree :> NumInt(-6)) @@ (F_OnePlusTwoGreaterTwo :> Bool(TRUE))

\* C13: a formula without parentheses over integers is parsed into the tree that
\* the precedence rules give (unary minus, then * and /, then + and -, then the
\* comparisons, each binary level associating to the left), and its value is the
\* value of its fully parenthesised form; 2+3*4 is 14, 10-4-3 is 3, -2*3 is -6
\* and 1+2>2 is true.
C13_PrecedenceAndAssociativity ==
    \A i \in DOMAIN calls :
        LET l == CallRef(i)
        IN (IsFormulaCell(sheet, l) /\ ~TokensOf(sheet, l).thrown
                /\ FlatArithmetic(TokensOf(sheet, l).v)) =>
               LET tree == RuleTree(TokensOf(sheet, l).v)
               IN /\ AstOf(sheet, l) = Ok(tree)
                  /\ ~calls[i].thrown
                  /\ calls[i].v = ValueOfText(ParenText(tree))
                  /\ l \notin DOMAIN errors
                  /\ sheet.cells[l].f.s \in DOMAIN ExampleValues =>
                         calls[i].v = ExampleValues[sheet.cells[l].f.s]

\* a formula with two subtractions, and so with a value that depends on the side
\* they associate to, was evaluated
C13_Witness ==
    /\ calls # <<>>
    /\ sheet.cells[A1].f.s = F_TenMinusFourMinusThree
    /\ FlatArithmetic(TokensOf(sheet, A1).v)
    /\ calls[1].v = NumInt(3)
    /\ ValueOfText(<<"1", "0", "-", "(", "4", "-", "3", ")">>) = NumInt(9)

\* the formula of l is tokenized and then rejected by the parser
ParseRejected(sh, l) ==
    IsFormulaCell(sh, l) /\ ~TokensOf(sh, l).thrown /\ AstOf(sh, l).thrown

\* the labels the text of the formula of l mentions
MentionedLabels(sh, l) ==
    LET tokens == TokensOf(sh, l).v
    IN {tokens[i].v : i \in {j \in DOMAIN tokens : tokens[j].t = "cell"}}

\* the messages of the parser: the tokens end early, a token stands where a primary
\* is required, a parenthesis is not matched, tokens are left over
ParserMessages ==
    { <<"Unexpected end">>, <<"Unexpected trailing tokens">> }
        \cup { <<"Unexpected token: ", t>> : t \in {"op", "rp", "comma", "colon"} }
        \cup { <<"Expected ", t>> : t \in {"rp", "cell"} }

\* C14: a get of a cell whose formula the parser rejects returns 0, records the
\* parser's message under the cell and memoizes it as 0, and none of the other
\* cells the formula mentions has been entered, memoized or given an error.
C14_RejectedBeforeEvaluation ==
    (Len(calls) = 1 /\ ParseRejected(sheet, CallRef(1))) =>
        LET l == CallRef(1)
        IN /\ ~calls[1].thrown
           /\ calls[1].v = Zero
           /\ l \in DOMAIN errors
           /\ errors[l] = AstOf(sheet, l).msg
           /\ errors[l] \in ParserMessages
           /\ l \in DOMAIN memo
           /\ memo[l] = Zero
           /\ \A x \in MentionedLabels(sheet, l) \ {l} :
                  /\ x \notin DOMAIN memo
                  /\ x \notin DOMAIN errors
                  /\ x \notin Range(log)

\* a formula with tokens left over, whose first reference is to a formula cell, was
\* requested
C14_Witness ==
    /\ Len(calls) = 1
    /\ ParseRejected(sheet, CallRef(1))
    /\ errors[CallRef(1)] = <<"Unexpected trailing tokens">>
    /\ \E x \in MentionedLabels(sheet, CallRef(1)) : IsFormulaCell(sheet, x)

\* the number the cell l counts as once the get call has returned: its memoized
\* value if it has one, else what a cell without formula counts as
CellNumber(l) == IF l \in DOMAIN memo THEN toNumber(memo[l]) ELSE PlainNumber(sheet, l)

\* the numbers one argument of a call stands for: a literal or a cell is one
\* number, a range the numbers of its cells in row-major order
ArgNumbers(node) ==
    IF node.k = "num" THEN <<node.v>>
    ELSE IF node.k = "cell" THEN <<CellNumber(node.ref)>>
    ELSE LET labels == expandA1Range(node.start \o <<":">> \o node.end).v
         IN [j \in DOMAIN labels |-> CellNumber(labels[j])]

\* the one list of the numbers of all the arguments
RECURSIVE FlatNumbers(_)
FlatNumbers(args) ==
    IF args = <<>> THEN <<>> ELSE ArgNumbers(Head(args)) \o FlatNumbers(Tail(args))

RECURSIVE Total(_)
Total(nums) == IF nums = <<>> THEN Zero ELSE NumAdd(Head(nums), Total(Tail(nums)))

\* the formula of l is a call of SUM or AVERAGE on literals, cells and ranges that
\* expand, none of which leads back to l
IsAggregate(sh, l) ==
    /\ Parses(sh, l)
    /\ LET ast == AstOf(sh, l).v
       IN /\ ast.k = "call"
          /\ toUpperCase(ast.fn) \in {SUM, AVERAGE}
          /\ \A j \in DOMAIN ast.args : ast.args[j].k \in {"num", "cell", "range"}
          /\ BadRangeMsgs(ast) = {}
          /\ l \notin ReachFrom(sh, NodeRefs(ast))

\* C15: a get of a cell whose formula is SUM(...) or AVERAGE(...) returns the total,
\* respectively the mean, of the one list made of the numbers of all arguments
\* (a scalar is one number, a range is the numbers of all its cells, a cell
\* without entry counts 0), and 0 when that list is empty.
C15_SumAndAverageFlatten ==
    \A i \in DOMAIN calls :
        IsAggregate(sheet, CallRef(i)) =>
            LET ast  == AstOf(sheet, CallRef(i)).v
                nums == FlatNumbers(ast.args)
            IN /\ ~calls[i].thrown
               /\ toUpperCase(ast.fn) = SUM => calls[i].v = Total(nums)
               /\ toUpperCase(ast.fn) = AVERAGE =>
                      calls[i].v = (IF nums = <<>> THEN Zero
                                    ELSE NumDiv(Total(nums), NumInt(Len(nums))))

\* an AVERAGE over a scalar and a range with a cell without entry returned a mean
\* that is not a whole number
C15_Witness ==
    /\ calls # <<>>
    /\ IsAggregate(sheet, CallRef(1))
    /\ LET ast == AstOf(sheet, CallRef(1)).v
       IN /\ toUpperCase(ast.fn) = AVERAGE
          /\ \E j \in DOMAIN ast.args : ast.args[j].k = "range"
          /\ \E j \in DOMAIN ast.args : ast.args[j].k = "cell"
          /\ NodeRefs(ast) \ DOMAIN sheet.cells # {}
          /\ Len(FlatNumbers(ast.args)) = 3
          /\ calls[1].v.d = 3

KnownFunctions == {SUM, AVERAGE, MIN, MAX, ROUND, IFFN}

IsUnknownCall(node) == node.k = "call" /\ toUpperCase(node.fn) \notin KnownFunctions

\* the places of the identifiers that are not followed by "("
BareIdents(tokens) ==
    {i \in DOMAIN tokens :
        tokens[i].t = "ident" /\ ~(i < Len(tokens) /\ tokens[i + 1].t = "lp")}

\* tokens with the literal 0 in the place of every bare identifier
ZeroIdents(tokens) ==
    [i \in DOMAIN tokens |->
        IF i \in BareIdents(tokens) THEN [t |-> "num", v |-> Zero] ELSE tokens[i]]

\* the tree with the literal 0 in the place of every call of an unknown function
RECURSIVE ZeroUnknown(_)
ZeroUnknown(node) ==
    IF IsUnknownCall(node) THEN NumNode(0)
    ELSE IF node.k = "call"
         THEN [node EXCEPT !.args = [j \in DOMAIN node.args |-> ZeroUnknown(node.args[j])]]
    ELSE IF node.k = "unary" THEN [node EXCEPT !.a = ZeroUnknown(node.a)]
    ELSE IF node.k = "bin"
         THEN [node EXCEPT !.a = ZeroUnknown(node.a), !.b = ZeroUnknown(node.b)]
    ELSE node

RECURSIVE HasUnknownCall(_)
HasUnknownCall(node) ==
    \/ IsUnknownCall(node)
    \/ node.k = "call" /\ \E j \in DOMAIN node.args : HasUnknownCall(node.args[j])
    \/ node.k = "unary" /\ HasUnknownCall(node.a)
    \/ node.k = "bin" /\ (HasUnknownCall(node.a) \/ HasUnknownCall(node.b))

\* the formula of l parses, all its ranges expand and no reference leads back to l:
\* nothing in it raises an error or meets a cycle on l
IsCleanFormula(sh, l) ==
    /\ Parses(sh, l)
    /\ BadRangeMsgs(AstOf(sh, l).v) = {}
    /\ l \notin ReachFrom(sh, NodeRefs(AstOf(sh, l).v))

RectangleCells(p, q) ==
    LET r0 == Min2(p.row, q.row)
        c0 == Min2(p.col, q.col)
        w  == Abs(p.col - q.col) + 1
        h  == Abs(p.row - q.row) + 1
    IN [j \in 1..(h * w) |-> [row |-> r0 + ((j - 1) \div w), col |-> c0 + ((j - 1) % w)]]

\* C17: for two well-formed endpoints expandA1Range returns the labels of the
\* rectangle they span, row by row and within a row column by column, each label
\* once, (|r1-r0|+1) x (|c1-c0|+1) labels in all, and the same list for each of
\* the four pairs of opposite corners, whichever corner comes first.
C17_RangeIsRowMajorRectangle ==
    (input.fn = "expandA1Range" /\ output # NoOutput) =>
        LET p == input.from
            q == input.to
            cells == RectangleCells(p, q)
        IN /\ ~output.thrown
           /\ Len(output.v) = (Abs(q.row - p.row) + 1) * (Abs(q.col - p.col) + 1)
           /\ \A j \in DOMAIN output.v :
                 /\ a1ToRowCol(output.v[j]) = Ok(cells[j])
                 /\ output.v[j] = rowColToA1(cells[j].row, cells[j].col)
           /\ \A j, k \in DOMAIN output.v : output.v[j] = output.v[k] => j = k
           /\ \A r0 \in {p.row, q.row}, c0 \in {p.col, q.col} :
                 expandA1Range(RangeText(r0, c0, (p.row + q.row) - r0, (p.col + q.col) - c0))
                     = output

\* a range given from its lower right to its upper left corner, in lower case and
\* across the columns Z and AA and the rows 9 and 10, was expanded
C17_Witness ==
    /\ input.fn = "expandA1Range"
    /\ output # NoOutput
    /\ input.range = <<"a", "a", "1", "0", ":", "z", "9">>
    /\ output = Ok(<<<<"Z", "9">>, <<"A", "A", "9">>, <<"Z", "1", "0">>, <<"A", "A", "1", "0">>>>)

\* C18: for every row >= 0 and every column 0 <= col < 18278, a1ToRowCol gives
\* (row, col) back from the label rowColToA1(row, col); the letters of a column
\* are one to three letters A..Z from which lettersToColIndex gives the column
\* back, so that no two columns share their letters; 0 is A, 25 is Z, 26 is AA.
C18_RowColRoundTrip ==
    (input.fn = "rowColToA1" /\ output # NoOutput) =>
        LET letters == colIndexToLetters(input.col)
        IN /\ output = Ok([row |-> input.row, col |-> input.col])
           /\ lettersToColIndex(letters) = Ok(input.col)
           /\ input.col < 18278 => Len(letters) \in 1..3
           /\ \A j \in DOMAIN letters : letters[j] \in Range(UpperLetters)
           /\ rowColToA1(input.row, input.col) = letters \o ToDigits(input.row + 1)
           /\ input.col = 0 => letters = <<"A">>
           /\ input.col = 25 => letters = <<"Z">>
           /\ input.col = 26 => letters = <<"A", "A">>
           /\ input.col = 701 => letters = <<"Z", "Z">>
           /\ input.col = 702 => letters = <<"A", "A", "A">>
           /\ input.col = 18277 => letters = <<"Z", "Z", "Z">>

\* the last column with three letters, in a row with three digits, went through
\* the round trip
C18_Witness ==
    /\ input.fn = "rowColToA1"
    /\ input.col = 18277
    /\ input.row = 99
    /\ output = Ok([row |-> 99, col |-> 18277])

\* a1 matches ^[A-Za-z]+\d+$ with a row of at least 1: letters, then digits
WellFormedLabel(a1) ==
    \E j \in 1..(Len(a1) - 1) :
        /\ \A x \in 1..j : isLetter(a1[x])
        /\ \A x \in (j + 1)..Len(a1) : isDigit(a1[x])
        /\ DigitsValue(SubSeq(a1, j + 1, Len(a1)), 0) >= 1

\* the zero-based row and column of a well-formed label lie in the sheet
InBounds(sh, a1) ==
    LET j == LettersEnd(a1, 1)
    IN /\ DigitsValue(SubSeq(a1, j, Len(a1)), 0) - 1 \in 0..(sh.rows - 1)
       /\ \E c \in 0..(sh.cols - 1) : colIndexToLetters(c) = toUpperCase(SubSeq(a1, 1, j - 1))

\* C19: clampSheetKey(sheet, label) returns the label when the label is well
\* formed and its row and column lie in the sheet, and throws for every other
\* label.
C19_ClampReturnsLabelOrThrows ==
    (input.fn = "clampSheetKey" /\ output # NoOutput) =>
        IF WellFormedLabel(input.a1) /\ InBounds(sheet, input.a1)
        THEN output = Ok(input.a1)
        ELSE output.thrown

\* what clampSheetKey does: it returns the label in upper case, padding included,
\* when the trimmed label is well formed and in the sheet, and throws otherwise
ClampValidatesTrimmedLabel ==
    (input.fn = "clampSheetKey" /\ output # NoOutput) =>
        IF WellFormedLabel(trim(input.a1)) /\ InBounds(sheet, trim(input.a1))
        THEN output = Ok(toUpperCase(input.a1))
        ELSE output.thrown

\* C20: no get call changes the caller's sheet: name, rows, cols and every entry
\* of cells are after the call what they were before it, also when the call
\* records an error or a cycle.
C20_SheetUnchanged == [][sheet' = sheet]_vars

\* get calls have recorded a cycle and a formula error, and the sheet is still one
\* of the sheets the callers supplied
C20_Witness ==
    /\ Len(calls) >= 2
    /\ \E l \in DOMAIN errors : errors[l] = CYCLE
    /\ \E l \in DOMAIN errors : errors[l] # CYCLE
    /\ sheet \in Sheets

\* the calls of the session so far, as a fresh evaluateSheet session on sh answers them
FreshValues(sh) == Replay(CallLabels, NewSession(sh))

RECURSIVE AfterCalls(_, _)
\* the session after the get calls labels
AfterCalls(labels, ses) ==
    IF labels = <<>> THEN ses ELSE AfterCalls(Tail(labels), get(Head(labels), ses).ses)

\* C21: every evaluateSheet call starts with an empty memo and an empty error
\* record, and after a cell was changed between two evaluateSheet calls the get
\* calls of the second session return, memoize and record what a session that
\* knows nothing of the first one computes from the changed sheet.
C21_SessionsShareNothing ==
    /\ calls = <<>> => memo = EmptyMap /\ errors = EmptyMap
    /\ previous # NoSession =>
          /\ \A i \in DOMAIN calls : calls[i].v = FreshValues(sheet)[i]
          /\ LET ses == AfterCalls(CallLabels, NewSession(sheet))
             IN memo = ses.memo /\ errors = ses.errors

\* the second session memoized for a label a value other than the one the first
\* session memoized for it, and dropped an error the first session had recorded
\* or recorded one it had not
C21_Witness ==
    /\ previous # NoSession
    /\ calls # <<>>
    /\ \E l \in DOMAIN memo \cap DOMAIN previous.memo : memo[l] # previous.memo[l]
    /\ DOMAIN errors # DOMAIN previous.errors


\* the labels of the try blocks of getValue that the running get has entered and
\* not left
TryFrames == {i \in DOMAIN kont : kont[i].f = "try"}

InProgress == {kont[i].ref : i \in TryFrames}

FormulaCells(sh) == {l \in DOMAIN sh.cells : IsFormulaCell(sh, l)}

\* C22: while a get runs, the stack holds exactly the labels of the formula cells
\* whose resolution has started and not finished, each once; a label leaves the
\* stack when its resolution ends by a value, by a cycle or by an error; the
\* stack is empty when the get has returned and never holds more labels than the
\* sheet has formula cells.
C22_StackIsCellsInProgress ==
    /\ stack = InProgress
    /\ Cardinality(stack) = Cardinality(TryFrames)
    /\ stack = {l \in Range(log) : l \notin DOMAIN memo}
    /\ stack \subseteq FormulaCells(sheet)
    /\ Cardinality(stack) <= Cardinality(FormulaCells(sheet))
    /\ ctl = Idle => stack = {}

\* two formulas in progress, one of them already hit by a cycle, and the inner one
\* ending with an error
C22_Witness ==
    /\ Cardinality(stack) = 2
    /\ \E l \in stack : l \in DOMAIN errors /\ errors[l] = CYCLE
    /\ ctl.op = "throw"

\* a get has returned after a cycle and an error were unwound
C22_Unwound ==
    /\ ctl = Idle
    /\ result # NoResult
    /\ Len(log) >= 2
    /\ \E l \in DOMAIN errors : errors[l] = CYCLE
    /\ \E l \in DOMAIN errors : errors[l] # CYCLE


\* no label occurs twice in the sequence
NoRepeat(seq) == \A i, j \in DOMAIN seq : seq[i] = seq[j] => i = j

\* the labels buildMatrix visits, in the order of its two loops
MatrixLabels(sh) ==
    [i \in 1..(sh.rows * sh.cols) |->
        sheetCellKeyFromRowCol((i - 1) \div sh.cols, (i - 1) % sh.cols)]

\* C23: within a session every formula cell is entered (tokenized, parsed and
\* evaluated) at most once, whatever get calls and references follow: no label
\* occurs twice among the formulas entered, and every formula entered is
\* memoized when the get that entered it has returned; buildMatrix visits every
\* label of the grid once, and its session enters no formula twice.
C23_EnteredAtMostOnce ==
    /\ NoRepeat(log)
    /\ Range(log) \subseteq DOMAIN memo
    /\ matrix # NoMatrix =>
          /\ NoRepeat(MatrixLabels(sheet))
          /\ Len(matrix) = sheet.rows
          /\ \A r \in DOMAIN matrix : Len(matrix[r]) = sheet.cols
          /\ NoRepeat(buildMatrix(sheet).ses.log)
          /\ Range(buildMatrix(sheet).ses.log) \subseteq FormulaCells(sheet)

\* a label was requested again after it had been memoized, a later call referred
\* to a formula an earlier call had entered, an error was memoized, and the
\* matrix was built over two formulas or more
C23_Witness ==
    /\ Len(calls) = 3
    /\ calls[1].a1 = calls[3].a1
    /\ calls[2].a1 # calls[1].a1
    /\ Len(log) >= 2
    /\ CallRef(2) \in Range(log) /\ CallRef(1) \in Range(log)
    /\ errors # EmptyMap
    /\ matrix # NoMatrix
    /\ Len(buildMatrix(sheet).ses.log) >= 2


\* the labels the formula of l mentions, whether or not its evaluation reaches them
FormulaRefs(sh, l) == IF Parses(sh, l) THEN NodeRefs(AstOf(sh, l).v) ELSE {}

RECURSIVE RefClosure(_, _)
RefClosure(sh, S) ==
    LET T == S \cup UNION {FormulaRefs(sh, l) : l \in S}
    IN IF T = S THEN S ELSE RefClosure(sh, T)

\* the formula of l transitively references l
RefersToItself(sh, l) == l \in RefClosure(sh, FormulaRefs(sh, l))

\* l and m lie on a common cycle of references
SameCycle(sh, l, m) ==
    /\ m \in RefClosure(sh, FormulaRefs(sh, l))
    /\ l \in RefClosure(sh, FormulaRefs(sh, m))

\* l and m lie on a common cycle of references through formulas none of which
\* raises an error of its own
SameCleanCycle(sh, l, m) ==
    /\ m \in ReachFrom(sh, CellRefs(sh, l))
    /\ l \in ReachFrom(sh, CellRefs(sh, m))

CycleLabels == {l \in DOMAIN errors : errors[l] = CYCLE}

\* #CYCLE! is recorded only under a cell whose formula transitively references
\* the cell, so never on a sheet without reference cycle
CycleOnlyOnCycles ==
    /\ \A l \in CycleLabels : RefersToItself(sheet, l)
    /\ (\A l \in DOMAIN sheet.cells : ~RefersToItself(sheet, l)) => CycleLabels = {}

\* C24 as stated: #CYCLE! is recorded only under a cell whose formula
\* transitively references the cell, never on a sheet without reference cycle,
\* and after a get of a cell on a reference cycle #CYCLE! is recorded under some
\* cell of that cycle.
C24_CycleRecordedOnEveryCycle ==
    /\ CycleOnlyOnCycles
    /\ \A i \in DOMAIN calls :
          RefersToItself(sheet, CallRef(i)) =>
              \E l \in CycleLabels : SameCycle(sheet, CallRef(i), l)

\* C24, amended: #CYCLE! is recorded only under a cell whose formula
\* transitively references the cell, never on a sheet without reference cycle,
\* and after a get of a cell on a reference cycle through formulas none of which
\* raises an error of its own #CYCLE! is recorded under some cell of that cycle.
C24_CycleRecordedOnCleanCycle ==
    /\ CycleOnlyOnCycles
    /\ \A i \in DOMAIN calls :
          OnRefCycle(sheet, CallRef(i)) =>
              \E l \in CycleLabels : SameCleanCycle(sheet, CallRef(i), l)

\* a cell was requested that lies on a cycle but is not the cell the cycle was
\* detected at, after a call that had not touched the cycle
C24_Witness ==
    /\ Len(calls) >= 2
    /\ ~OnRefCycle(sheet, CallRef(1))
    /\ \E i \in DOMAIN calls :
          /\ OnRefCycle(sheet, CallRef(i))
          /\ CallRef(i) \notin CycleLabels
          /\ \E l \in CycleLabels : SameCleanCycle(sheet, CallRef(i), l)


\* no formula of the sheet transitively references its own cell
Acyclic(sh) == \A l \in DOMAIN sh.cells : ~RefersToItself(sh, l)

\* what the first get call of a session on sh returns for a1
FirstValue(sh, a1) ==
    LET r == get(a1, NewSession(sh)) IN IF r.thrown THEN Undefined ELSE r.v

\* C25: on a sheet without reference cycle every get call returns for its label
\* what the first call of a new session on the sheet returns for it, whatever
\* labels the session was asked for before and in whatever order.
C25_OrderIndependent ==
    Acyclic(sheet) =>
        \A i \in DOMAIN calls :
            /\ ~calls[i].thrown
            /\ calls[i].v = FirstValue(sheet, calls[i].a1)

\* a session that asked for a formula after two other cells, one of them a
\* formula it depends on and that has an error, and got a value other than 0
C25_Witness ==
    /\ Acyclic(sheet)
    /\ Len(calls) = 3
    /\ CallRef(3) \notin {CallRef(1), CallRef(2)}
    /\ CallRef(1) # CallRef(2)
    /\ \E i \in 1..2 : CallRef(i) \in DOMAIN errors \cap FormulaRefs(sheet, CallRef(3))
    /\ calls[3].v # Zero


\* whether the comparison x op y of two numbers holds
Holds(op, x, y) ==
    IF op = "=" THEN NumEq(x, y)
    ELSE IF op = "!=" THEN ~NumEq(x, y)
    ELSE IF op = ">" THEN NumLt(y, x)
    ELSE IF op = ">=" THEN NumLt(y, x) \/ NumEq(x, y)
    ELSE IF op = "<" THEN NumLt(x, y)
    ELSE NumLt(x, y) \/ NumEq(x, y)

\* the number a token stands for: a number literal, or a reference to a cell that
\* holds no formula
IsPlainToken(sh, tok) == tok.t = "num" \/ (tok.t = "cell" /\ ~IsFormulaCell(sh, tok.v))

TokenNumber(sh, tok) == IF tok.t = "num" THEN tok.v ELSE PlainNumber(sh, tok.v)

\* the formula of l is a op1 b op2 c with two comparison operators
IsComparisonChain(sh, l) ==
    /\ IsFormulaCell(sh, l)
    /\ ~TokensOf(sh, l).thrown
    /\ LET tokens == TokensOf(sh, l).v
       IN /\ Len(tokens) = 5
          /\ \A i \in {1, 3, 5} : IsPlainToken(sh, tokens[i])
          /\ \A i \in {2, 4} : tokens[i].t = "op" /\ tokens[i].v \in ComparisonOps

\* 1 for a comparison that holds and 0 for one that does not
TruthNumber(b) == IF b THEN NumInt(1) ELSE Zero

\* C26: a formula a op1 b op2 c with two comparison operators returns the boolean
\* of (a op1 b) op2 c, with the boolean of a op1 b counted as 1 or 0; so 2=2=2 is
\* false and 2=2=1 is true.
C26_ComparisonChainFoldsLeft ==
    \A i \in DOMAIN calls :
        LET l == CallRef(i)
        IN IsComparisonChain(sheet, l) =>
               LET tokens == TokensOf(sheet, l).v
                   first  == Holds(tokens[2].v, TokenNumber(sheet, tokens[1]),
                                   TokenNumber(sheet, tokens[3]))
               IN /\ ~calls[i].thrown
                  /\ calls[i].v = Bool(Holds(tokens[4].v, TruthNumber(first),
                                             TokenNumber(sheet, tokens[5])))
                  /\ l \notin DOMAIN errors
                  /\ sheet.cells[l].f.s = <<"=", "2", "=", "2", "=", "2">> =>
                         calls[i].v = Bool(FALSE)
                  /\ sheet.cells[l].f.s = F_ChainTrue => calls[i].v = Bool(TRUE)

\* 2=2=1 was evaluated and is true, although 2 = (2 = 1) is false
C26_Witness ==
    /\ calls # <<>>
    /\ sheet.cells[A1].f.s = F_ChainTrue
    /\ IsComparisonChain(sheet, A1)
    /\ calls[1].v = Bool(TRUE)
    /\ ValueOfText(<<"2", "=", "(", "2", "=", "1", ")">>) = Bool(FALSE)

\* 2=2=2 was evaluated and is false
C26_AllEqualIsFalse ==
    /\ calls # <<>>
    /\ sheet.cells[A1].f.s = <<"=", "2", "=", "2", "=", "2">>
    /\ calls[1].v = Bool(FALSE)


\* the sheet with the text of every formula converted by Case
RecasedSheet(sh, Case(_)) ==
    [sh EXCEPT !.cells =
        [l \in DOMAIN sh.cells |->
            IF sh.cells[l].f.t = "str"
            THEN [sh.cells[l] EXCEPT !.f = Str(Case(sh.cells[l].f.s))]
            ELSE sh.cells[l]]]

UpperSheet(sh) == RecasedSheet(sh, toUpperCase)

LowerSheet(sh) == RecasedSheet(sh, toLowerCase)

\* the formula of l has letters in upper and in lower case
MixedCase(sh, l) ==
    LET text == sh.cells[l].f.s
    IN text # toUpperCase(text) /\ text # toLowerCase(text)

\* C27: a get call returns for a sheet what it returns for the sheet with every
\* reference and function name of its formulas written in upper case, and in
\* lower case; and it returns for a label what get returns for the label written
\* in upper case, and in lower case.
C27_CaseInsensitive ==
    \A i \in DOMAIN calls :
        /\ calls[i].v = FirstValue(UpperSheet(sheet), calls[i].a1)
        /\ calls[i].v = FirstValue(LowerSheet(sheet), calls[i].a1)
        /\ calls[i].v = FirstValue(sheet, toLowerCase(calls[i].a1))
        /\ calls[i].v = FirstValue(sheet, toUpperCase(calls[i].a1))
        /\ calls[i].v = FirstValue(LowerSheet(sheet), toLowerCase(calls[i].a1))

\* a formula that writes a function name and its references in mixed case was
\* evaluated to a value other than 0
C27_Witness ==
    /\ calls # <<>>
    /\ MixedCase(sheet, A1)
    /\ Parses(sheet, A1)
    /\ AstOf(sheet, A1).v.k = "call"
    /\ NodeRefs(AstOf(sheet, A1).v) # {}
    /\ calls[1].v # Zero
    /\ LowerSheet(sheet) # sheet /\ UpperSheet(sheet) # sheet


\* the callbacks dbTakeOauthState returned the row to
Accepted == {q \in Requests : requests[q].pc = "done" /\ requests[q].accepted}

\* C28: an OAuth state value is accepted by at most one callback: no two
\* callbacks that carry the same state both get its row from dbTakeOauthState.
C28_StateAcceptedOnce ==
    \A q1, q2 \in Accepted : requests[q1].state = requests[q2].state => q1 = q2

\* a callback whose SELECT runs after the DELETE of another callback with the
\* same state finds no row
TakenStateIsGone ==
    \A q1, q2 \in Requests :
        (/\ q1 # q2
         /\ requests[q1].pc = "check" \/ q1 \in Accepted
         /\ requests[q2].pc = "select"
         /\ requests[q2].state = requests[q1].state) =>
            requests[q2].state \notin DOMAIN oauthStates

\* one callback was given the row and another, with the same state, was refused
OneAcceptedOneRefused ==
    \E q1, q2 \in Requests :
        /\ q1 \in Accepted
        /\ requests[q2].pc = "done" /\ ~requests[q2].accepted
        /\ requests[q2].state = requests[q1].state


\* the events that concern the call id: the messages that carry its id and the
\* errors of the worker, among the events raised after the call
EventsFor(id) ==
    {k \in DOMAIN events :
        /\ k > promises[id].at
        /\ events[k].kind = "error" \/ events[k].id = id}

\* the first of them
FirstEventFor(id) == CHOOSE k \in EventsFor(id) : \A j \in EventsFor(id) : k <= j

\* C29: every transformRows call is settled by the first event after it that is
\* a message with its own id or an error of the worker, and by nothing else:
\* resolved by a message without error, rejected by a message with error or by
\* a worker error; its promise is settled at most once; pending holds exactly
\* the ids of the calls not settled, so it is empty after a worker error until
\* the next call; and a message with an id that is not pending changes nothing.
C29_SettledByOwnResponse ==
    /\ DOMAIN promises = Range(posted)
    /\ pending = {id \in DOMAIN promises : promises[id].state = "pending"}
    /\ \A id \in DOMAIN promises :
          /\ promises[id].settled <= 1
          /\ promises[id].settled = 0 <=> promises[id].state = "pending"
          /\ IF EventsFor(id) = {} THEN promises[id].state = "pending"
             ELSE LET e == events[FirstEventFor(id)]
                  IN /\ promises[id].by = FirstEventFor(id)
                     /\ promises[id].state =
                            IF e.kind = "message" /\ ~e.error THEN "resolved" ELSE "rejected"
    /\ (events # <<>> /\ events[Len(events)].kind = "error"
            /\ \A id \in DOMAIN promises : promises[id].at < Len(events)) => pending = {}

\* two calls were answered in the opposite order, the later one twice, the
\* second answer being ignored
C29_Witness ==
    /\ Len(posted) = 2
    /\ Len(events) = 3
    /\ promises[1].at = 0 /\ promises[2].at = 0
    /\ events[1] = [kind |-> "message", id |-> 2, error |-> FALSE]
    /\ events[2] = [kind |-> "message", id |-> 2, error |-> TRUE]
    /\ events[3] = [kind |-> "message", id |-> 1, error |-> TRUE]
    /\ promises[2].state = "resolved"
    /\ promises[1].state = "rejected"
    /\ pending = {}

\* a message with an unknown id left a pending call alone and a worker error
\* then rejected it
C29_UnknownThenError ==
    /\ Len(events) >= 2
    /\ events[1].kind = "message" /\ events[1].id \notin 1..MaxTransforms
    /\ events[2].kind = "error"
    /\ 1 \in DOMAIN promises /\ promises[1].at = 0
    /\ promises[1].state = "rejected" /\ promises[1].by = 2
    /\ pending = {}


\* the timeline of the store: history ++ [spec] ++ future
Timeline(state) == state.history \o <<state.spec>> \o state.future

\* undo and redo leave the timeline as it is, undo changes nothing when history
\* is empty and redo nothing when future is empty
CursorMoves ==
    /\ Timeline(Undo(store)) = Timeline(store)
    /\ Timeline(Redo(store)) = Timeline(store)
    /\ store.history = <<>> => Undo(store) = store
    /\ store.future = <<>> => Redo(store) = store

====
